---- MODULE Spec2Model ----
(***************************************************************************)
(* Model of the detection / geometry core of the cutter repository:        *)
(*   models/box.py        Box, iou_data, iou, coverage_ratio,              *)
(*                        coverage_deduplication                           *)
(*   methods/detector.py  has_white_gap, detect_image, detect_selection    *)
(*   ocr/detector.py      detect_text_regions (the older detector)         *)
(*   ui/main_window.py    MainWindow.detect_current, and the window's      *)
(*                        handlers over a session (with models/state.py)   *)
(*   utils/rules.py       apply_rules                                      *)
(*   models/table.py      Table                                            *)
(*   ui_table/table_edit.py  Editor.merge_operation, split_operation       *)
(*                                                                         *)
(* Python floats are modelled as exact rationals [n, d] with d > 0.  All   *)
(* quotients the code forms are quotients of integers far below 2^26, so   *)
(* the correctly rounded IEEE quotient compares with the literals 0.7,     *)
(* 0.95, 0.03 and 0.12 exactly as the rational does.                       *)
(***************************************************************************)
EXTENDS Integers, Sequences, FiniteSets, TLC

\* ------------------------------------------------------------------------
\* Bounds of the model (not program constants)
\* ------------------------------------------------------------------------
\* iou / coverage_ratio inputs: pairs of boxes with x, y in 0..PairMaxPos and
\* w, h in 0..PairMaxSize
PairMaxPos == 1
PairMaxSize == 2
\* coverage_deduplication inputs: lists of up to MaxBoxes boxes one pixel wide
\* with y in 0..MaxY and h in {Tall - 1, Tall}: tall enough for overlaps
\* just below, at and just above COVER_THRESH
MaxY == 2
Tall == 21
MaxBoxes == 3
\* pictures hold up to MaxBlobs blobs; FarX is a far-right / far-down origin
MaxBlobs == 3
\* rule tables hold up to MaxRows rows
MaxRows == 2
MaxItems == 2
\* HoughLinesP reports up to MaxLines segments
MaxLines == 3
\* the gap filters see boxes up to GapMaxSize x GapMaxSize
GapMaxSize == 9
FarX == 1900

\* ------------------------------------------------------------------------
\* Generic helpers
\* ------------------------------------------------------------------------
Max2(a, b) == IF a >= b THEN a ELSE b
Min2(a, b) == IF a <= b THEN a ELSE b

\* Python's None: as an exception name, as a range (a range is a pair) and as
\* an Optional[Box]
None == "None"
NoRange == << >>
NoBox == [x |-> 0, y |-> 0, w |-> 0, h |-> 0, selected |-> FALSE, source |-> "None"]

\* A float as an exact rational with positive denominator
Rat(n, d) == [n |-> n, d |-> d]
RatLt(p, q) == p.n * q.d < q.n * p.d
RatLe(p, q) == p.n * q.d <= q.n * p.d
RatEq(p, q) == p.n * q.d = q.n * p.d
RatGt(p, q) == RatLt(q, p)
RatGe(p, q) == RatLe(q, p)
Zero == Rat(0, 1)
One == Rat(1, 1)

Range(s) == {s[i] : i \in 1..Len(s)}

\* ------------------------------------------------------------------------
\* models/box.py
\* ------------------------------------------------------------------------
\* @dataclass Box: x, y, w, h, selected = True, source = "auto"
Box(x, y, w, h) ==
    [x |-> x, y |-> y, w |-> w, h |-> h, selected |-> TRUE, source |-> "auto"]

\* Box.area
area(b) == b.w * b.h

\* iou_data with the intersection counted twice in the union
iou_dataUnionSum(a, b) ==
    LET x0 == Max2(a.x, b.x)
        y0 == Max2(a.y, b.y)
        x1 == Min2(a.x + a.w, b.x + b.w)
        y1 == Min2(a.y + a.h, b.y + b.h)
        inter == (x1 - x0) * (y1 - y0)
    IN  IF x1 <= x0 \/ y1 <= y0
        THEN [inter |-> 0, union |-> area(a) + area(b), min_area |-> 0]
        ELSE [inter |-> inter,
              union |-> area(a) + area(b),
              min_area |-> Min2(area(a), area(b))]

\* iou_data(a, b) -> (inter, union, min_area)
iou_data(a, b) ==
    LET x0 == Max2(a.x, b.x)
        y0 == Max2(a.y, b.y)
        x1 == Min2(a.x + a.w, b.x + b.w)
        y1 == Min2(a.y + a.h, b.y + b.h)
        inter == (x1 - x0) * (y1 - y0)
    IN  IF x1 <= x0 \/ y1 <= y0
        THEN [inter |-> 0, union |-> area(a) + area(b), min_area |-> 0]
        ELSE [inter |-> inter,
              union |-> area(a) + area(b) - inter,
              min_area |-> Min2(area(a), area(b))]

IOU_THRESH == Rat(7, 10)
\* a threshold of 1.0 instead of 0.95
COVER_THRESH_One == Rat(1, 1)
COVER_THRESH == Rat(19, 20)

\* iou(a, b): union < 0.1 on integers is union <= 0
iou(a, b) ==
    LET d == iou_data(a, b)
    IN  IF d.union <= 0 THEN Zero ELSE Rat(d.inter, d.union)

\* coverage_ratio dividing by the first box's area instead of the smaller one
coverage_ratioFirstArea(a, b) ==
    LET d == iou_data(a, b)
    IN  IF d.min_area <= 0 THEN Zero ELSE Rat(d.inter, area(a))

\* coverage_ratio(a, b): min_area < 0.1 on integers is min_area <= 0
coverage_ratio(a, b) ==
    LET d == iou_data(a, b)
    IN  IF d.min_area <= 0 THEN Zero ELSE Rat(d.inter, d.min_area)

\* sorted(boxes, key=lambda b: b.x * b.y): Python's sort is stable
SortKey(b) == b.x * b.y

RECURSIVE InsertByKey(_, _)
InsertByKey(sorted, b) ==
    IF sorted = << >> THEN << b >>
    ELSE IF SortKey(sorted[Len(sorted)]) <= SortKey(b)
         THEN Append(sorted, b)
         ELSE Append(InsertByKey(SubSeq(sorted, 1, Len(sorted) - 1), b),
                     sorted[Len(sorted)])

\* no sorting: the boxes in input order
SortedByKeyUnsorted(boxes) == boxes

RECURSIVE SortedByKey(_)
SortedByKey(boxes) ==
    IF boxes = << >> THEN << >>
    ELSE InsertByKey(SortedByKey(SubSeq(boxes, 1, Len(boxes) - 1)),
                     boxes[Len(boxes)])

\* the inner loop looking at the last kept box only
DroppedLastOnly(box, final_boxes) ==
    /\ final_boxes # << >>
    /\ RatGt(coverage_ratio(box, final_boxes[Len(final_boxes)]), COVER_THRESH)

\* the inner loop of coverage_deduplication: drop = some kept box covers box
Dropped(box, final_boxes) ==
    \E k \in 1..Len(final_boxes) :
        RatGt(coverage_ratio(box, final_boxes[k]), COVER_THRESH)

RECURSIVE DedupLoop(_, _)
DedupLoop(sorted_boxes, final_boxes) ==
    IF sorted_boxes = << >> THEN final_boxes
    ELSE DedupLoop(Tail(sorted_boxes),
                   IF Dropped(Head(sorted_boxes), final_boxes)
                   THEN final_boxes
                   ELSE Append(final_boxes, Head(sorted_boxes)))

coverage_deduplication(boxes) == DedupLoop(SortedByKey(boxes), << >>)

\* the caller's list after the call, had line 52 been boxes.sort(key=...)
ArgumentSortedInPlace(boxes) == SortedByKey(boxes)

\* the caller's list after coverage_deduplication(boxes): line 52 sorts into
\* a new list and no line assigns to boxes or to a field of a Box
ArgumentAfterDedup(boxes) == boxes

\* ------------------------------------------------------------------------
\* Images
\* ------------------------------------------------------------------------
\* An image is white (255) everywhere except on its blobs, pairwise disjoint
\* filled rectangles [x, y, w, h, lum] of luminance lum.
\* A decoded image is [width, height, blobs, readable]; Unreadable stands for
\* a path whose file cannot be opened or decoded.
Image(width, height, blobs) ==
    [width |-> width, height |-> height, blobs |-> blobs, readable |-> TRUE]
Unreadable == [width |-> 0, height |-> 0, blobs |-> {}, readable |-> FALSE]

Blob(x, y, w, h, lum) == [x |-> x, y |-> y, w |-> w, h |-> h, lum |-> lum]

Overlap1D(a0, a1, b0, b1) == Max2(0, Min2(a1, b1) - Max2(a0, b0))

BlobsDisjoint(b, c) ==
    Overlap1D(b.x, b.x + b.w, c.x, c.x + c.w) = 0
    \/ Overlap1D(b.y, b.y + b.h, c.y, c.y + c.h) = 0

\* some pixel of b is an 8-neighbour of some pixel of c
Adjacent(b, c) ==
    /\ b.x <= c.x + c.w /\ c.x <= b.x + b.w
    /\ b.y <= c.y + c.h /\ c.y <= b.y + b.h

RECURSIVE SumOver(_, _)
SumOver(S, f) ==
    IF S = {} THEN 0
    ELSE LET e == CHOOSE e \in S : TRUE IN f[e] + SumOver(S \ {e}, f)

MinOf(S) == CHOOSE m \in S : \A e \in S : m <= e
MaxOf(S) == CHOOSE m \in S : \A e \in S : m >= e

\* the elements of S as a sequence in increasing order of the (injective) key
RECURSIVE SeqByKey(_, _)
SeqByKey(S, key) ==
    IF S = {} THEN << >>
    ELSE LET m == CHOOSE e \in S : \A o \in S : key[e] <= key[o]
         IN  << m >> \o SeqByKey(S \ {m}, key)

\* Number of pixels with luminance < lim among columns x0..x1-1 of row y, as
\* PIL's Image.crop(...).convert("L") shows them: a crop reaching outside
\* the image is padded with 0 (black).
DarkInRow(img, lim, x0, x1, y) ==
    IF y < 0 \/ y >= img.height THEN x1 - x0
    ELSE LET inside == Overlap1D(x0, x1, 0, img.width)
             dark == {b \in img.blobs : b.lum < lim /\ b.y <= y /\ y < b.y + b.h}
             part == [b \in dark |->
                        Overlap1D(Max2(x0, 0), Min2(x1, img.width), b.x, b.x + b.w)]
         IN  (x1 - x0) - inside + SumOver(dark, part)

DarkInColumn(img, lim, y0, y1, x) ==
    IF x < 0 \/ x >= img.width THEN y1 - y0
    ELSE LET inside == Overlap1D(y0, y1, 0, img.height)
             dark == {b \in img.blobs : b.lum < lim /\ b.x <= x /\ x < b.x + b.w}
             part == [b \in dark |->
                        Overlap1D(Max2(y0, 0), Min2(y1, img.height), b.y, b.y + b.h)]
         IN  (y1 - y0) - inside + SumOver(dark, part)

\* ------------------------------------------------------------------------
\* Connected components (8-connectivity) of the foreground blobs
\* ------------------------------------------------------------------------
RECURSIVE Reach(_, _)
Reach(S, fg) ==
    LET N == S \cup {b \in fg : \E s \in S : Adjacent(b, s)}
    IN  IF N = S THEN S ELSE Reach(N, fg)

ComponentSets(fg) == {Reach({b}, fg) : b \in fg}

\* the tight bounding box of a set of rectangles
BoundingBox(S) ==
    LET x0 == MinOf({b.x : b \in S})
        y0 == MinOf({b.y : b \in S})
        x1 == MaxOf({b.x + b.w : b \in S})
        y1 == MaxOf({b.y + b.h : b \in S})
    IN  Box(x0, y0, x1 - x0, y1 - y0)

PixelCount(S) == SumOver(S, [b \in S |-> b.w * b.h])

\* position of the first pixel of component S in a row-major scan
RasterKey(S, img) ==
    LET top == MinOf({b.y : b \in S})
        left == MinOf({b.x : b \in {c \in S : c.y = top}})
    IN  top * (img.width + 1) + left

\* position of the first pixel of component S in a column-major scan
ColumnKey(S, img) ==
    LET left == MinOf({b.x : b \in S})
        top == MinOf({b.y : b \in {c \in S : c.x = left}})
    IN  left * (img.height + 1) + top

\* ------------------------------------------------------------------------
\* methods/detector.py: constants and helpers
\* ------------------------------------------------------------------------
BORDER == 5
MIN_AREA == 20
\* a gap ratio of one half
WHITE_GAP_RATIO_Half == Rat(1, 2)
WHITE_GAP_RATIO == Rat(3, 25)
\* has_white_gap's keyword defaults: white_ratio_thresh = 0.03 (and a
\* threshold of 1.0, under which every row counts as blank)
white_ratio_threshAll == Rat(1, 1)
white_ratio_thresh == Rat(3, 100)
\* the luminance threshold of cv2.threshold(.., 128, ..), arr < 128, x < 128
INK_LEVEL == 128

\* length of the longest run of TRUE in blank[lo..hi-1]
\* (np.diff of the padded mask, starts, ends, (ends - starts).max())
RECURSIVE RunScan(_, _, _, _, _)
RunScan(blank, p, hi, cur, best) ==
    IF p >= hi THEN Max2(cur, best)
    ELSE LET cur1 == IF blank[p] THEN cur + 1 ELSE 0
             best1 == IF blank[p] THEN best ELSE Max2(cur, best)
         IN  \* both are natural numbers; the test has them computed here
             IF cur1 + best1 >= 0 THEN RunScan(blank, p + 1, hi, cur1, best1)
             ELSE 0

LongestRun(blank, lo, hi) == RunScan(blank, lo, hi, 0, 0)

\* has_white_gap(image, box), margin_ratio = 0: top, bottom = 0, h
has_white_gap(image, box) ==
    LET h == box.h
        w == box.w
        row_mask == [r \in 0..(h - 1) |->
            RatLe(Rat(DarkInRow(image, INK_LEVEL, box.x, box.x + w, box.y + r), w),
                  white_ratio_thresh)]
        col_mask == [c \in 0..(w - 1) |->
            RatLe(Rat(DarkInColumn(image, INK_LEVEL, box.y, box.y + h, box.x + c), h),
                  white_ratio_thresh)]
        row_gap_max == LongestRun(row_mask, 0, h)
        col_gap_max == LongestRun(col_mask, 0, w)
        has_horizontal_gap == RatGe(Rat(row_gap_max, h), WHITE_GAP_RATIO)
        has_vertical_gap == RatGe(Rat(col_gap_max, w), WHITE_GAP_RATIO)
    IN  has_horizontal_gap \/ has_vertical_gap

\* lines 71-85: threshold (THRESH_BINARY_INV keeps luminance <= 128 as
\* foreground), connectedComponentsWithStats(connectivity=8), area >= MIN_AREA;
\* labels follow the row-major position of each component's first pixel
ExtractComponents(image) ==
    LET fg == {b \in image.blobs : b.lum <= INK_LEVEL}
        kept == {S \in ComponentSets(fg) : PixelCount(S) >= MIN_AREA}
        order == SeqByKey(kept, [S \in kept |-> RasterKey(S, image)])
    IN  [k \in 1..Len(order) |-> BoundingBox(order[k])]

\* a merge that keeps only the box added last
merge_boxesLastOnly(bs) ==
    IF bs = << >> THEN Box(0, 0, 0, 0) ELSE bs[Len(bs)]

\* the nested merge_boxes(boxes) of detect_image
merge_boxes(bs) ==
    IF bs = << >> THEN Box(0, 0, 0, 0) ELSE BoundingBox(Range(bs))

\* twice the centre (x + w / 2, y + h / 2) of a box, and four times the
\* squared distance between two centres
Center2(b) == << 2 * b.x + b.w, 2 * b.y + b.h >>
Dist2(p, q) == (p[1] - q[1]) * (p[1] - q[1]) + (p[2] - q[2]) * (p[2] - q[2])

\* KDTree(centers).query(center, k): the indices of the k components nearest
\* to the centre of box, nearest first.  scipy does not fix the order of
\* equidistant points: tie = "lo" lists the lower index first, "hi" the higher
TreeQuery(comps, box, k, tie) ==
    LET n == Len(comps)
        c == Center2(box)
        key == [j \in 1..n |->
                  Dist2(Center2(comps[j]), c) * (n + 1)
                    + (IF tie = "lo" THEN j ELSE n - j)]
    IN  SubSeq(SeqByKey(1..n, key), 1, k)

\* the comparisons of lines 118 and 140: the merged box exceeds a maximum
ExceedsMax(b, wr, hr) ==
    (wr # NoRange /\ b.w > wr[2]) \/ (hr # NoRange /\ b.h > hr[2])

\* line 121 with the height test forgotten / with the minima forgotten
InRangeWidthOnly(b, wr, hr) ==
    wr[1] <= b.w /\ b.w <= wr[2]
InRangeNoMin(b, wr, hr) ==
    b.w <= wr[2] /\ b.h <= hr[2]

\* line 121
InRange(b, wr, hr) ==
    /\ wr[1] <= b.w /\ b.w <= wr[2]
    /\ hr[1] <= b.h /\ b.h <= hr[2]

\* lines 132-146: the first queried index that is unused and whose merge
\* with used_boxes stays within the maxima; 0 when there is none
RECURSIVE FirstFit(_, _, _, _, _, _)
FirstFit(idxs, comps, used_idx, used_bs, wr, hr) ==
    IF idxs = << >> THEN 0
    ELSE LET idx == Head(idxs)
         IN  IF idx \in used_idx
                \/ ExceedsMax(merge_boxes(Append(used_bs, comps[idx])), wr, hr)
             THEN FirstFit(Tail(idxs), comps, used_idx, used_bs, wr, hr)
             ELSE idx

\* cv2.dnn.NMSBoxes reads each bbox as a cv::Rect2d (x, y, width, height);
\* overlap is 1 - jaccardDistance: |a & b| / (|a| + |b| - |a & b|)
RectOverlap(r, s) ==
    LET x1 == Max2(r[1], s[1])
        y1 == Max2(r[2], s[2])
        iw == Min2(r[1] + r[3], s[1] + s[3]) - x1
        ih == Min2(r[2] + r[4], s[2] + s[4]) - y1
        Aa == r[3] * r[4]
        Ab == s[3] * s[4]
        Aab == IF iw <= 0 \/ ih <= 0 THEN 0 ELSE iw * ih
    IN  IF Aa + Ab <= 0 THEN One ELSE Rat(Aab, Aa + Ab - Aab)

RECURSIVE NMSLoop(_, _, _, _)
NMSLoop(order, bboxes, nms_threshold, kept) ==
    IF order = << >> THEN kept
    ELSE LET idx == Head(order)
             keep == \A k \in 1..Len(kept) :
                        RatLe(RectOverlap(bboxes[idx], bboxes[kept[k]]), nms_threshold)
         IN  NMSLoop(Tail(order), bboxes, nms_threshold,
                     IF keep THEN Append(kept, idx) ELSE kept)

\* cv2.dnn.NMSBoxes(bboxes, scores, score_threshold, nms_threshold): the
\* boxes with score > score_threshold, by descending score (stable), each
\* kept unless its overlap with a kept box exceeds nms_threshold
NMSBoxes(bboxes, scores, score_threshold, nms_threshold) ==
    LET n == Len(bboxes)
        cand == {j \in 1..n : scores[j] > score_threshold}
        order == SeqByKey(cand, [j \in cand |-> (0 - scores[j]) * (n + 1) + j])
    IN  NMSLoop(order, bboxes, nms_threshold, << >>)

\* line 154: the rows [x, y, x + w, y + h] handed to NMSBoxes
BoxesNp(cands) ==
    [j \in 1..Len(cands) |->
        << cands[j].x, cands[j].y, cands[j].x + cands[j].w, cands[j].y + cands[j].h >>]

\* line 164 with the signs of the border swapped
ExpandedInward(box) ==
    Box(box.x + BORDER, box.y + BORDER, box.w - BORDER * 2, box.h - BORDER * 2)

\* line 164
Expanded(box) ==
    Box(box.x - BORDER, box.y - BORDER, box.w + BORDER * 2, box.h + BORDER * 2)

\* ------------------------------------------------------------------------
\* methods/detector.py: detect_image
\* ------------------------------------------------------------------------
\* What a call leaves behind: how it ended (status "returned" with its
\* result, or "raised" with the exception), and the values of its locals
Outcome(status, exc, result, components, grown, candidates, indices) ==
    [status |-> status, exc |-> exc, result |-> result,
     components |-> components, grown |-> grown,
     candidates |-> candidates, indices |-> indices]

Returned(result, components, grown, candidates, indices) ==
    Outcome("returned", None, result, components, grown, candidates, indices)

Raised(exc, components, grown) ==
    Outcome("raised", exc, << >>, components, grown, << >>, << >>)

\* lines 116-146, one seed's while loop.  path records, per iteration, the
\* merged box `current` and the working set; the loop's value is best_valid
RECURSIVE GrowLoop(_, _, _, _, _, _, _, _)
GrowLoop(comps, used_idx, used_bs, best_valid, wr, hr, tie, path) ==
    LET current == merge_boxes(used_bs)
        path1 == Append(path, [current |-> current, used |-> used_idx])
        best1 == IF wr # NoRange /\ hr # NoRange /\ InRange(current, wr, hr)
                 THEN current ELSE best_valid
        k == Min2(8, Len(comps) - Cardinality(used_idx))
        idx == FirstFit(TreeQuery(comps, current, k, tie),
                        comps, used_idx, used_bs, wr, hr)
    IN  IF ExceedsMax(current, wr, hr)
        THEN [best_valid |-> best_valid, path |-> path1]
        ELSE IF k <= 0 \/ idx = 0
             THEN [best_valid |-> best1, path |-> path1]
             ELSE GrowLoop(comps, used_idx \cup {idx}, Append(used_bs, comps[idx]),
                           best1, wr, hr, tie, path1)

\* every recorded box appended twice
RECURSIVE CollectCandidatesTwice(_, _)
CollectCandidatesTwice(grown, i) ==
    IF i > Len(grown) THEN << >>
    ELSE (IF grown[i].best_valid # NoBox
          THEN << grown[i].best_valid, grown[i].best_valid >> ELSE << >>)
         \o CollectCandidatesTwice(grown, i + 1)

\* lines 148-149 over all seeds: the recorded boxes, in seed order
RECURSIVE CollectCandidates(_, _)
CollectCandidates(grown, i) ==
    IF i > Len(grown) THEN << >>
    ELSE (IF grown[i].best_valid # NoBox THEN << grown[i].best_valid >> ELSE << >>)
         \o CollectCandidates(grown, i + 1)

\* lines 158-165: the kept candidates that show no white gap, expanded
RECURSIVE FinalLoop(_, _, _)
FinalLoop(image, candidates, indices) ==
    IF indices = << >> THEN << >>
    ELSE LET box == candidates[Head(indices)]
         IN  (IF has_white_gap(image, box) THEN << >> ELSE << Expanded(box) >>)
             \o FinalLoop(image, candidates, Tail(indices))

\* detect_image(image_path, W_RANGE, H_RANGE).  Image.open raises for a file
\* it cannot read and nothing in detect_image catches it
detect_image(image_path, wr, hr, tie) ==
    IF ~image_path.readable THEN Raised("OSError", << >>, << >>)
    ELSE
    LET image == image_path
        components == ExtractComponents(image)
        grown == [i \in 1..Len(components) |->
                    GrowLoop(components, {i}, << components[i] >>, NoBox,
                             wr, hr, tie, << >>)]
        candidates == CollectCandidates(grown, 1)
        scores == [j \in 1..Len(candidates) |-> area(candidates[j])]
        indices == NMSBoxes(BoxesNp(candidates), scores, 0, IOU_THRESH)
    IN  IF components = << >> THEN Returned(<< >>, << >>, << >>, << >>, << >>)
        ELSE IF candidates = << >>
             THEN Returned(<< >>, components, grown, << >>, << >>)
             ELSE Returned(FinalLoop(image, candidates, indices),
                           components, grown, candidates, indices)

\* detect_selection(image, rect): the rows and columns of the crop that hold
\* a pixel < 128, their first and last, expanded by BORDER; None without any
detect_selection(image, rect) ==
    LET x0 == rect.x
        y0 == rect.y
        x1 == rect.x + rect.w
        y1 == rect.y + rect.h
        rows == {r \in 0..(rect.h - 1) : DarkInRow(image, INK_LEVEL, x0, x1, y0 + r) > 0}
        cols == {c \in 0..(rect.w - 1) : DarkInColumn(image, INK_LEVEL, y0, y1, x0 + c) > 0}
    IN  IF rows = {} \/ cols = {} THEN NoBox
        ELSE LET min_y == MinOf(rows)
                 max_y == MaxOf(rows)
                 min_x == MinOf(cols)
                 max_x == MaxOf(cols)
             IN  [x |-> x0 + min_x - BORDER,
                  y |-> y0 + min_y - BORDER,
                  w |-> max_x - min_x + 1 + BORDER * 2,
                  h |-> max_y - min_y + 1 + BORDER * 2,
                  selected |-> TRUE,
                  source |-> "manual"]

\* ------------------------------------------------------------------------
\* ocr/detector.py: has_horizontal_white_gap, detect_text_regions
\* ------------------------------------------------------------------------
\* int(h * margin_ratio), int(h * (1 - margin_ratio)) with margin_ratio = 0.15
MarginTop(h) == (15 * h) \div 100
MarginBottom(h) == (85 * h) \div 100
min_gap_ratio == Rat(3, 25)

has_horizontal_white_gap(image, box) ==
    LET h == box.h
        w == box.w
        row_mask == [r \in 0..(h - 1) |->
            RatLe(Rat(DarkInRow(image, INK_LEVEL, box.x, box.x + w, box.y + r), w),
                  white_ratio_thresh)]
        max_gap == LongestRun(row_mask, MarginTop(h), MarginBottom(h))
    IN  RatGe(Rat(max_gap, h), min_gap_ratio)

\* lines 69-106: ink is luminance < 128; the scan is column by column, so the
\* components follow the column-major position of their first pixel; a
\* component is kept when box.w > 2 and box.h > 2
ExtractComponentsBfs(image) ==
    LET fg == {b \in image.blobs : b.lum < INK_LEVEL}
        kept == {S \in ComponentSets(fg) :
                    BoundingBox(S).w > 2 /\ BoundingBox(S).h > 2}
        order == SeqByKey(kept, [S \in kept |-> ColumnKey(S, image)])
    IN  [k \in 1..Len(order) |-> BoundingBox(order[k])]

\* lines 122-131, the nested iou of detect_text_regions
ocr_iou(a, b) ==
    LET x0 == Max2(a.x, b.x)
        y0 == Max2(a.y, b.y)
        x1 == Min2(a.x + a.w, b.x + b.w)
        y1 == Min2(a.y + a.h, b.y + b.h)
        inter == (x1 - x0) * (y1 - y0)
    IN  IF x1 <= x0 \/ y1 <= y0 THEN Zero
        ELSE Rat(inter, a.w * a.h + b.w * b.h - inter)

\* lines 156-161: the first queried index not yet used; 0 when there is none
RECURSIVE FirstUnused(_, _)
FirstUnused(idxs, used_idx) ==
    IF idxs = << >> THEN 0
    ELSE IF Head(idxs) \in used_idx THEN FirstUnused(Tail(idxs), used_idx)
         ELSE Head(idxs)

\* lines 141-164, one seed's while loop.  W_RANGE[1] and H_RANGE[1] are
\* subscripted without a None test (`or` evaluates H_RANGE[1] only when the
\* width test is false), and tree.query(center, k=1) returns a 1-d array, so
\* `for idx in idxs[0]` iterates over a numpy integer: both are TypeErrors
RECURSIVE OcrGrowLoop(_, _, _, _, _, _, _, _)
OcrGrowLoop(comps, used_idx, used_bs, best_valid, wr, hr, tie, path) ==
    LET current == merge_boxes(used_bs)
        path1 == Append(path, [current |-> current, used |-> used_idx])
        stop == [best_valid |-> best_valid, path |-> path1, exc |-> None]
        fail == [best_valid |-> best_valid, path |-> path1, exc |-> "TypeError"]
        best1 == IF InRange(current, wr, hr) THEN current ELSE best_valid
        k == Min2(8, Len(comps))
        idx == FirstUnused(TreeQuery(comps, current, k, tie), used_idx)
    IN  IF wr = NoRange THEN fail
        ELSE IF current.w > wr[2] THEN stop
        ELSE IF hr = NoRange THEN fail
        ELSE IF current.h > hr[2] THEN stop
        ELSE IF k = 1 THEN [fail EXCEPT !.best_valid = best1]
        ELSE IF idx = 0 THEN [stop EXCEPT !.best_valid = best1]
        ELSE OcrGrowLoop(comps, used_idx \cup {idx}, Append(used_bs, comps[idx]),
                         best1, wr, hr, tie, path1)

\* sorted(candidates, key=lambda b: b.w * b.h, reverse=True): stable
AreaOrder(candidates) ==
    LET n == Len(candidates)
        byArea == SeqByKey(1..n,
                     [j \in 1..n |-> (0 - area(candidates[j])) * (n + 1) + j])
    IN  [k \in 1..n |-> candidates[byArea[k]]]

\* lines 170-175: gap filter, then IOU against the boxes already in final
RECURSIVE OcrFinalLoop(_, _, _)
OcrFinalLoop(image, sorted, final) ==
    IF sorted = << >> THEN final
    ELSE LET box == Head(sorted)
             keep == /\ ~has_horizontal_white_gap(image, box)
                     /\ \A k \in 1..Len(final) :
                            RatLt(ocr_iou(box, final[k]), IOU_THRESH)
         IN  OcrFinalLoop(image, Tail(sorted),
                          IF keep THEN Append(final, Expanded(box)) ELSE final)

\* detect_text_regions(image_path, W_RANGE, H_RANGE): the seeds are grown in
\* order, and the first exception ends the call
detect_text_regions(image_path, wr, hr, tie) ==
    IF ~image_path.readable THEN Raised("OSError", << >>, << >>)
    ELSE
    LET image == image_path
        components == ExtractComponentsBfs(image)
        grown == [i \in 1..Len(components) |->
                    OcrGrowLoop(components, {i}, << components[i] >>, NoBox,
                                wr, hr, tie, << >>)]
        candidates == CollectCandidates(grown, 1)
    IN  IF components = << >> THEN Returned(<< >>, << >>, << >>, << >>, << >>)
        ELSE IF \E i \in 1..Len(components) : grown[i].exc # None
             THEN LET f == MinOf({i \in 1..Len(components) : grown[i].exc # None})
                  IN  Raised("TypeError", components, SubSeq(grown, 1, f))
             ELSE Returned(OcrFinalLoop(image, AreaOrder(candidates), << >>),
                           components, grown, candidates, << >>)

\* a filter that compares with the ranges as given, without the border
filter_boxesNoBorder(boxes, w_range, h_range) ==
    LET keep(box) ==
            /\ w_range # NoRange => (w_range[1] <= box.w /\ box.w <= w_range[2])
            /\ h_range # NoRange => (h_range[1] <= box.h /\ box.h <= h_range[2])
    IN  SelectSeq(boxes, keep)

\* filter_boxes(boxes, w_range, h_range), lines 180-194: a box is kept when
\* its width and height lie in the given ranges widened by BORDER * 2; a
\* range of None is not tested
filter_boxes(boxes, w_range, h_range) ==
    LET keep(box) ==
            /\ w_range # NoRange =>
                  (w_range[1] + BORDER * 2 <= box.w /\ box.w <= w_range[2] + BORDER * 2)
            /\ h_range # NoRange =>
                  (h_range[1] + BORDER * 2 <= box.h /\ box.h <= h_range[2] + BORDER * 2)
    IN  SelectSeq(boxes, keep)

\* ------------------------------------------------------------------------
\* methods/deskew.py
\* ------------------------------------------------------------------------
\* A cv2 image is [present, width, height, channels, lines, turned]:
\*   present  FALSE for None (cv2.imread of a file it cannot read)
\*   lines    what cv2.HoughLinesP finds on its Canny edges: a sequence of
\*            segments << x1, y1, x2, y2 >>, empty for None / no line
\*   turned   the rotation its pixels have received, in units of 1/2000 degree
\* Angles are integers in units of 1/1000 degree.
CvImage(width, height, channels, lines) ==
    [present |-> TRUE, width |-> width, height |-> height, channels |-> channels,
     lines |-> lines, turned |-> 0]
CvNone ==
    [present |-> FALSE, width |-> 0, height |-> 0, channels |-> 0,
     lines |-> << >>, turned |-> 0]

MAX_ROTATE_DEG == 20000

\* np.degrees(np.arctan2(dy, dx)) in 1/1000 degree, for the directions the
\* model draws segments from (exact on the multiples of 45 degrees, rounded
\* to 1/1000 degree elsewhere)
ArcTan2Deg(dy, dx) ==
    CASE dy = 0 /\ dx > 0 -> 0
      [] dy = 0 /\ dx < 0 -> 180000
      [] dy = dx /\ dx > 0 -> 45000
      [] dy = dx /\ dx < 0 -> -135000
      [] dy = 0 - dx /\ dx > 0 -> -45000
      [] dy = 0 - dx /\ dx < 0 -> 135000
      [] dx = 50 /\ dy = 18 -> 19799
      [] dx = 50 /\ dy = -18 -> -19799
      [] dx = 50 /\ dy = 19 -> 20807
      [] dx = 50 /\ dy = -19 -> -20807
      [] dx = 50 /\ dy = 51 -> 45567
      [] dx = -50 /\ dy = 1 -> 178854
      [] dx = -50 /\ dy = -51 -> -134433

Abs(v) == IF v < 0 THEN 0 - v ELSE v

\* lines 33-39: the angle of one segment
LineAngle(line) ==
    LET dx == line[3] - line[1]
        dy == line[4] - line[2]
    IN  IF dx = 0 THEN 90000 ELSE ArcTan2Deg(dy, dx)

\* lines 42-48 keeping the angles near 180 degrees as they are
NormalizedKeepAll(angle) ==
    IF Abs(angle) <= 45000 THEN << angle >>
    ELSE IF Abs(angle) <= 135000
         THEN << IF angle > 0 THEN angle - 90000 ELSE angle + 90000 >>
         ELSE << angle >>

\* lines 42-48: what one angle appends to angles
Normalized(angle) ==
    IF Abs(angle) <= 45000 THEN << angle >>
    ELSE IF Abs(angle) <= 135000
         THEN << IF angle > 0 THEN angle - 90000 ELSE angle + 90000 >>
         ELSE << >>

\* lines 31-48
RECURSIVE CollectAngles(_)
CollectAngles(lines) ==
    IF lines = << >> THEN << >>
    ELSE Normalized(LineAngle(Head(lines))) \o CollectAngles(Tail(lines))

\* twice np.median(angles): the middle element of the sorted angles, or the
\* mean of the two middle ones
Median2(angles) ==
    LET n == Len(angles)
        order == SeqByKey(1..n, [k \in 1..n |-> angles[k] * (n + 1) + k])
        at == [k \in 1..n |-> angles[order[k]]]
    IN  IF n % 2 = 1 THEN 2 * at[(n + 1) \div 2]
        ELSE at[n \div 2] + at[n \div 2 + 1]

\* an Optional[float]: the angle in 1/2000 degree, or None
NoAngle == [defined |-> FALSE, half |-> 0]
SomeAngle(half) == [defined |-> TRUE, half |-> half]

\* lines 50-57 without the reliability cutoff
MedianNoLimit(angles) ==
    IF angles = << >> THEN NoAngle ELSE SomeAngle(Median2(angles))

\* lines 50-57, given the collected angles
MedianWithinLimit(angles) ==
    IF angles = << >> THEN NoAngle
    ELSE IF Abs(Median2(angles)) > 2 * MAX_ROTATE_DEG THEN NoAngle
         ELSE SomeAngle(Median2(angles))

\* estimate_skew_angle(image)
estimate_skew_angle(img) ==
    IF ~img.present \/ img.width * img.height * img.channels = 0 THEN NoAngle
    ELSE IF img.lines = << >> THEN NoAngle
         ELSE MedianWithinLimit(CollectAngles(img.lines))

\* rotate_image(image, angle_deg): warpAffine into a (w, h) destination; what
\* HoughLinesP would find on the rotated pixels is not modelled
rotate_image(img, half) ==
    [present |-> TRUE, width |-> img.width, height |-> img.height,
     channels |-> img.channels, lines |-> << >>, turned |-> img.turned + half]

\* line 77-79 given the estimate
DeskewBy(img, angle) ==
    IF ~angle.defined THEN img ELSE rotate_image(img, 0 - angle.half)

\* auto_deskew(image)
auto_deskew(img) == DeskewBy(img, estimate_skew_angle(img))

\* ------------------------------------------------------------------------
\* ocr/merge.py: merge_boxes(boxes) -> list[Box]
\* ------------------------------------------------------------------------
MERGE_RATIO == Rat(3, 5)

\* lines 21-27: the vertical overlap of the running box (y, h) and b exceeds
\* 0.6 of the smaller height.  overlap_y > 0 implies both heights are positive
ShouldMerge(y, h, b) ==
    LET overlap_y == Min2(y + h, b.y + b.h) - Max2(y, b.y)
    IN  overlap_y > 0 /\ RatGt(Rat(overlap_y, Min2(h, b.h)), MERGE_RATIO)

\* lines 17-34, the inner loop for the box at index i: cur is the running
\* (x, y, w, h), group the indices merged into it, used the flags as a set
RECURSIVE MergeInner(_, _, _, _, _, _)
MergeInner(bs, i, j, cur, group, used) ==
    IF j > Len(bs) THEN [cur |-> cur, group |-> group, used |-> used]
    ELSE IF i = j \/ j \in used \/ ~ShouldMerge(cur.y, cur.h, bs[j])
         THEN MergeInner(bs, i, j + 1, cur, group, used)
         ELSE LET b == bs[j]
                  nx == Min2(cur.x, b.x)
                  ny == Min2(cur.y, b.y)
                  nw == Max2(cur.x + cur.w, b.x + b.w) - nx
                  nh == Max2(cur.y + cur.h, b.y + b.h) - ny
              IN  MergeInner(bs, i, j + 1, Box(nx, ny, nw, nh),
                             group \cup {j}, used \cup {j})

\* one pass of the outer loop, given the inner loop's result
MergeStep(r, i, acc) ==
    [merged |-> Append(acc.merged, r.cur),
     groups |-> Append(acc.groups, r.group),
     used |-> r.used \cup {i}]

\* lines 11-37, the outer loop
RECURSIVE MergeOuter(_, _, _)
MergeOuter(bs, i, acc) ==
    IF i > Len(bs) THEN acc
    ELSE IF i \in acc.used THEN MergeOuter(bs, i + 1, acc)
         ELSE MergeOuter(bs, i + 1,
                         MergeStep(MergeInner(bs, i, 1,
                                              Box(bs[i].x, bs[i].y, bs[i].w, bs[i].h),
                                              {i}, acc.used),
                                   i, acc))

\* merged: the returned list; groups: per returned box, the input indices
\* merged into it
MergeRun(bs) == MergeOuter(bs, 1, [merged |-> << >>, groups |-> << >>, used |-> {}])

ocr_merge_boxes(bs) == MergeRun(bs).merged

\* the caller's list after merge_boxes(boxes): x, y, w, h are locals (lines
\* 15, 33) and the merged boxes are new objects (line 37)
ArgumentAfterMerge(bs) == bs

\* ------------------------------------------------------------------------
\* ui/main_window.py: MainWindow.detect_current
\* ------------------------------------------------------------------------
\* state.current is None: no file has been chosen yet
NoPath == [width |-> -1, height |-> -1, blobs |-> {}, readable |-> FALSE]

\* A cell's text is a sequence of characters.  int(text): an optional sign
\* followed by decimal digits, ValueError for anything else
Digits == << "0", "1", "2", "3", "4", "5", "6", "7", "8", "9" >>
IsDigit(c) == \E i \in 1..Len(Digits) : Digits[i] = c
DigitValue(c) == (CHOOSE i \in 1..Len(Digits) : Digits[i] = c) - 1

RECURSIVE DigitsValue(_, _)
DigitsValue(s, acc) ==
    IF s = << >> THEN acc
    ELSE DigitsValue(Tail(s), 10 * acc + DigitValue(Head(s)))

\* int(item.text() or 0): the empty text is falsy and gives int(0) = 0
ParseCell(text) ==
    IF text = << >> THEN [ok |-> TRUE, value |-> 0]
    ELSE LET signed == Head(text) \in { "-", "+" }
             body == IF signed THEN Tail(text) ELSE text
         IN  IF body # << >> /\ \A i \in 1..Len(body) : IsDigit(body[i])
             THEN [ok |-> TRUE,
                   value |-> IF Head(text) = "-" THEN 0 - DigitsValue(body, 0)
                             ELSE DigitsValue(body, 0)]
             ELSE [ok |-> FALSE, value |-> 0]

\* line 245
RowAccepted(w_min, w_max, h_min, h_max) ==
    w_min < w_max /\ h_min < h_max /\ Max2(w_max, h_max) > 0

\* lines 237-246, one row: the Outcome of detect_image when the row is
\* accepted; no boxes when int() rejects a cell (ValueError: continue) or
\* line 245 rejects the row
RowOutcome(current, row, tie) ==
    LET w_min == ParseCell(row[1])
        w_max == ParseCell(row[2])
        h_min == ParseCell(row[3])
        h_max == ParseCell(row[4])
    IN  IF /\ w_min.ok /\ w_max.ok /\ h_min.ok /\ h_max.ok
           /\ RowAccepted(w_min.value, w_max.value, h_min.value, h_max.value)
        THEN detect_image(current, << w_min.value, w_max.value >>,
                          << h_min.value, h_max.value >>, tie)
        ELSE Returned(<< >>, << >>, << >>, << >>, << >>)

\* lines 236-246: boxes.extend(...) row by row; an exception of detect_image
\* ends the handler
RECURSIVE RuleLoop(_, _)
RuleLoop(outcomes, acc) ==
    IF outcomes = << >> THEN [boxes |-> acc, exc |-> None]
    ELSE IF Head(outcomes).status = "raised"
         THEN [boxes |-> acc, exc |-> Head(outcomes).exc]
         ELSE RuleLoop(Tail(outcomes), acc \o Head(outcomes).result)

\* lines 248-249: state.images[state.current] = coverage_deduplication(boxes).
\* The Outcome's candidates are the boxes before deduplication
StoreBoxes(r) ==
    IF r.exc # None THEN Raised(r.exc, << >>, << >>)
    ELSE Outcome("returned", None, coverage_deduplication(r.boxes),
                 << >>, << >>, r.boxes, << >>)

\* detect_current(): nothing happens without a current file
detect_current(current, rows, tie) ==
    IF current = NoPath
    THEN Outcome("skipped", None, << >>, << >>, << >>, << >>, << >>)
    ELSE StoreBoxes(RuleLoop([i \in 1..Len(rows) |-> RowOutcome(current, rows[i], tie)],
                             << >>))

\* ------------------------------------------------------------------------
\* ui/main_window.py and models/state.py: the window's state over a session
\* ------------------------------------------------------------------------
\* The files the user opens, and where on_file_changed writes the deskewed
\* copy of each: path.parent.parent / "deskew" / (path.stem + ".deskew.png")
ScanA == "scan/a.png"
ScanB == "scan/b.png"
Originals == { ScanA, ScanB }
DeskewPath(path) ==
    IF path = ScanA THEN "deskew/a.deskew.png" ELSE "deskew/b.deskew.png"
PathKeys == Originals \cup { DeskewPath(p) : p \in Originals }
NoCurrent == "None"

\* a value of the dict AppState.images: no such key, None, or a list of Box
AbsentEntry == [kind |-> "absent", boxes |-> << >>]
NoneEntry == [kind |-> "None", boxes |-> << >>]
ListEntry(bs) == [kind |-> "list", boxes |-> bs]

\* AppState() and the widgets after MainWindow.__init__; `files` and `row`
\* are the file list and its current row (0: none), `box_items` the boxes of
\* the image view, `seen` the history of the boxes last shown for each file
NewWindow ==
    [images |-> [k \in PathKeys |-> AbsentEntry],
     current |-> NoCurrent,
     files |-> << >>,
     row |-> 0,
     box_items |-> << >>,
     seen |-> [p \in Originals |-> << >>]]

\* on_file_changed(current) for the item at row r.  The file is one
\* cv2.imread can read
on_file_changed(st, r) ==
    LET path == st.files[r]
        saved == IF st.current # NoCurrent
                 THEN [st.images EXCEPT ![st.current] = ListEntry(st.box_items)]
                 ELSE st.images
        entry == saved[path]
    IN  [st EXCEPT !.images = saved,
                   !.current = DeskewPath(path),
                   !.row = r,
                   !.box_items = IF entry.kind = "list" THEN entry.boxes ELSE << >>]

\* add_files(files): the list is reloaded, every file gets None, and row 0
\* becomes current, which runs on_file_changed
add_files(st, paths) ==
    LET listed == [st EXCEPT
                     !.files = paths,
                     !.row = 0,
                     !.images = [k \in PathKeys |->
                                   IF k \in Range(paths) THEN NoneEntry ELSE st.images[k]],
                     !.seen = [p \in Originals |->
                                 IF p \in Range(paths) THEN << >> ELSE st.seen[p]]]
    IN  on_file_changed(listed, 1)

\* the part of `seen` for the file shown
Shown(st, bs) ==
    IF st.row = 0 THEN st.seen ELSE [st.seen EXCEPT ![st.files[st.row]] = bs]

\* detect_current() when the rules find final_boxes
ui_detect_current(st, final_boxes) ==
    IF st.current = NoCurrent THEN st
    ELSE [st EXCEPT !.images[st.current] = ListEntry(final_boxes),
                    !.box_items = final_boxes,
                    !.seen = Shown(st, final_boxes)]

\* on_selection_finished(rect) when detect_selection returns box (or NoBox)
on_selection_finished(st, box) ==
    IF st.current = NoCurrent \/ box = NoBox THEN st
    ELSE [st EXCEPT !.box_items = Append(st.box_items, box),
                    !.seen = Shown(st, Append(st.box_items, box))]

\* delete_selected_boxes() with the items at the positions in chosen selected
delete_selected_boxes(st, chosen) ==
    LET keep == SeqByKey((1..Len(st.box_items)) \ chosen,
                         [k \in (1..Len(st.box_items)) \ chosen |-> k])
        left == [p \in 1..Len(keep) |-> st.box_items[keep[p]]]
    IN  [st EXCEPT !.box_items = left, !.seen = Shown(st, left)]

\* export_current(): after writing the crops, the next row becomes current
\* and detect_current runs on it
export_current(st, final_boxes) ==
    IF st.current = NoCurrent THEN st
    ELSE IF st.row + 1 <= Len(st.files)
         THEN ui_detect_current(on_file_changed(st, st.row + 1), final_boxes)
         ELSE st

\* ------------------------------------------------------------------------
\* utils/rules.py: apply_rules
\* ------------------------------------------------------------------------
\* A Box object whose instance was given the attribute `locked`, which the
\* dataclass of models/box.py does not declare
WithLocked(box, locked) ==
    [x |-> box.x, y |-> box.y, w |-> box.w, h |-> box.h,
     selected |-> box.selected, source |-> box.source, locked |-> locked]

\* hasattr(box, "locked")
HasLocked(box) == "locked" \in DOMAIN box

\* line 18: r = box.w / box.h if box.h > 0 else 0.0
AspectRatio(box) == IF box.h > 0 THEN Rat(box.w, box.h) ELSE Zero

\* line 20, the value assigned to box.selected
RuleSelects(box, w, h, ratio) ==
    /\ w[1] <= box.w /\ box.w <= w[2]
    /\ h[1] <= box.h /\ box.h <= h[2]
    /\ RatLe(ratio[1], AspectRatio(box)) /\ RatLe(AspectRatio(box), ratio[2])

\* lines 14-20: the loop from index i on.  Reading box.locked of an object
\* without that attribute raises AttributeError, which ends the call with
\* the boxes before it already updated
RECURSIVE ApplyRulesLoop(_, _, _, _, _)
ApplyRulesLoop(bs, i, w, h, ratio) ==
    IF i > Len(bs) THEN [status |-> "returned", exc |-> None, boxes |-> bs]
    ELSE IF ~HasLocked(bs[i])
         THEN [status |-> "raised", exc |-> "AttributeError", boxes |-> bs]
         ELSE IF bs[i].locked THEN ApplyRulesLoop(bs, i + 1, w, h, ratio)
              ELSE ApplyRulesLoop(
                       [bs EXCEPT ![i].selected = RuleSelects(bs[i], w, h, ratio)],
                       i + 1, w, h, ratio)

\* apply_rules(boxes, w, h, ratio): how the call ends, and the list after it
apply_rules(bs, w, h, ratio) == ApplyRulesLoop(bs, 1, w, h, ratio)

\* ------------------------------------------------------------------------
\* models/table.py: Table.  A str is the sequence of its characters, a row
\* the list of its cells, and `cells` the list of the rows; the code's
\* indices count from 0
\* ------------------------------------------------------------------------
EmptyStr == << >>

\* text[:cursor] and text[cursor:] for any integer cursor
SliceStop(text, cursor) ==
    IF cursor < 0 THEN Max2(Len(text) + cursor, 0) ELSE Min2(cursor, Len(text))
StrBefore(text, cursor) == SubSeq(text, 1, SliceStop(text, cursor))
StrAfter(text, cursor) == SubSeq(text, SliceStop(text, cursor) + 1, Len(text))

IMAGE_PATH_COL == 0
TEXT_COL_START == 2

\* Table(): no rows
NewTable == << >>

row_count(cells) == Len(cells)
column_count(cells) == IF cells = << >> THEN TEXT_COL_START ELSE Len(cells[1])

\* set_rows(count): the first `count` rows, then rows ["", ""] up to count
set_rows(cells, count) ==
    [r \in 1..count |->
        IF r <= Len(cells) THEN cells[r] ELSE << EmptyStr, EmptyStr >>]

\* set_columns(count): every row cut to its first `count` cells, then
\* padded with "" up to count
set_columns(cells, count) ==
    [r \in 1..Len(cells) |->
        [c \in 1..count |-> IF c <= Len(cells[r]) THEN cells[r][c] ELSE EmptyStr]]

ensure_cell(cells, row, col) == set_columns(set_rows(cells, row + 1), col + 1)

\* self.cells[row][col] = text
PutCell(cells, row, col, text) == [cells EXCEPT ![row + 1][col + 1] = text]

set_image(cells, row, path) ==
    PutCell(set_rows(cells, row + 1), row, IMAGE_PATH_COL, path)

get_text(cells, row, col) ==
    IF row >= row_count(cells) THEN EmptyStr
    ELSE IF col >= Len(cells[row + 1]) THEN EmptyStr
    ELSE cells[row + 1][col + 1]

set_text(cells, row, col, text) == PutCell(ensure_cell(cells, row, col), row, col, text)

\* lines 90-91: for r in range(row_count() - 1, row + 1, -1), from r down
RECURSIVE ShiftDown(_, _, _, _)
ShiftDown(cells, r, row, col) ==
    IF r <= row + 1 THEN cells
    ELSE ShiftDown(PutCell(cells, r, col, cells[r][col + 1]), r - 1, row, col)

split_cell(cells, row, col, cursor) ==
    LET c1 == ensure_cell(cells, row, col)
        text == c1[row + 1][col + 1]
        c2 == PutCell(c1, row, col, StrBefore(text, cursor))
        c3 == set_columns(set_rows(c2, row_count(c2) + 1), col + 1)
        c4 == ShiftDown(c3, row_count(c3) - 1, row, col)
    IN  PutCell(c4, row + 1, col, StrAfter(text, cursor))

\* a Table over a session: its cells, the cells before the last call, and
\* the last call
NoOp == [name |-> "none", row |-> 0, col |-> 0, cursor |-> 0, text |-> EmptyStr]
NewTableSession == [cells |-> NewTable, prev |-> NewTable, op |-> NoOp, n |-> 0]

\* ------------------------------------------------------------------------
\* ui_table/table_edit.py: Editor.  The table it edits answers len(table),
\* get_cell(row, col) and set_cell(row, col, text); it is a grid of a fixed
\* number of rows
\* ------------------------------------------------------------------------
table_len(table) == Len(table)
get_cell(table, row, col) == table[row + 1][col + 1]
set_cell(table, row, col, text) == [table EXCEPT ![row + 1][col + 1] = text]

LINE_SEPARATOR == "*"
Whitespace == { " " }

\* Editor.LINE_SEPARATOR in text
HasSeparator(text) == \E i \in 1..Len(text) : text[i] = LINE_SEPARATOR

\* where the first separator of a text that has one is
FirstSeparator(text) ==
    CHOOSE i \in 1..Len(text) :
        text[i] = LINE_SEPARATOR /\ \A j \in 1..(i - 1) : text[j] # LINE_SEPARATOR

\* text.split(LINE_SEPARATOR)[0] and LINE_SEPARATOR.join of the other parts
SplitFirst(text) ==
    IF HasSeparator(text) THEN SubSeq(text, 1, FirstSeparator(text) - 1) ELSE text
SplitRest(text) ==
    IF HasSeparator(text) THEN SubSeq(text, FirstSeparator(text) + 1, Len(text))
    ELSE EmptyStr

\* bool(text.strip())
HasContent(text) == \E i \in 1..Len(text) : text[i] \notin Whitespace

\* lines 62-63: for row in range(current_row + 1, penultimate_row), from row on
RECURSIVE MergeShiftUp(_, _, _, _)
MergeShiftUp(table, row, penultimate_row, col) ==
    IF row >= penultimate_row THEN table
    ELSE MergeShiftUp(set_cell(table, row, col, get_cell(table, row + 1, col)),
                      row + 1, penultimate_row, col)

merge_operation(table, current_row, col) ==
    LET total_rows == table_len(table)
        last_row == total_rows - 1
        penultimate_row == last_row - 1
        last_row_text == get_cell(table, last_row, col)
        split_first == SplitFirst(last_row_text)
        split_rest == SplitRest(last_row_text)
    IN  IF total_rows < 2 \/ current_row >= total_rows - 1 THEN table
        ELSE IF current_row = penultimate_row
             THEN LET merged_text == get_cell(table, current_row, col) \o split_first
                      t1 == set_cell(table, current_row, col, merged_text)
                  IN  set_cell(t1, last_row, col, split_rest)
             ELSE LET merged_text == get_cell(table, current_row, col)
                                        \o get_cell(table, current_row + 1, col)
                      t1 == set_cell(table, current_row, col, merged_text)
                      t2 == MergeShiftUp(t1, current_row + 1, penultimate_row, col)
                      t3 == set_cell(t2, penultimate_row, col, split_first)
                  IN  set_cell(t3, last_row, col, split_rest)

\* lines 82-83: for row in range(total_rows - 1, current_row + 1, -1), from row down
RECURSIVE SplitShiftDown(_, _, _, _)
SplitShiftDown(table, row, current_row, col) ==
    IF row <= current_row + 1 THEN table
    ELSE SplitShiftDown(set_cell(table, row, col, get_cell(table, row - 1, col)),
                        row - 1, current_row, col)

\* split_operation without lines 87-90: the old text of the last row is not
\* appended
split_operationDropsLast(table, current_row, col, cursor_pos, current_text) ==
    LET total_rows == table_len(table)
    IN  IF current_row >= total_rows \/ cursor_pos >= Len(current_text) THEN table
        ELSE LET t1 == set_cell(table, current_row, col,
                                StrBefore(current_text, cursor_pos))
                 t2 == SplitShiftDown(t1, total_rows - 1, current_row, col)
             IN  set_cell(t2, current_row + 1, col,
                          StrAfter(current_text, cursor_pos))

\* for current_row below the last row; at the last row line 85 addresses a
\* row the table does not have
split_operation(table, current_row, col, cursor_pos, current_text) ==
    LET total_rows == table_len(table)
    IN  IF current_row >= total_rows \/ cursor_pos >= Len(current_text) THEN table
        ELSE LET t1 == set_cell(table, current_row, col,
                                StrBefore(current_text, cursor_pos))
                 last_row_text == get_cell(t1, total_rows - 1, col)
                 t2 == SplitShiftDown(t1, total_rows - 1, current_row, col)
                 t3 == set_cell(t2, current_row + 1, col,
                                StrAfter(current_text, cursor_pos))
             IN  IF HasContent(last_row_text)
                 THEN set_cell(t3, total_rows - 1, col,
                               get_cell(t3, total_rows - 1, col)
                                   \o << LINE_SEPARATOR >> \o last_row_text)
                 ELSE t3

\* the table of the editor over a session: its cells, the last two
\* operations and the cells before each
NoEdit == [name |-> "none", row |-> 0, col |-> 0, cursor |-> 0, before |-> << >>]
NoEditor == [table |-> << >>, last |-> NoEdit, prior |-> NoEdit, n |-> 0]

\* ------------------------------------------------------------------------
\* State
VARIABLES
    pc,        \* "call": the call is about to be made; "done": it has ended;
               \* "again": it has been made a second time on the same list
    fn,        \* the function called
    image,     \* its image argument (detect_current: state.current)
    rules,     \* detect_current: the rows of the rule table, four texts each
    W_RANGE,   \* detect_image / detect_text_regions: the width range or NoRange
    H_RANGE,   \* the height range or NoRange
    rect,      \* detect_selection: the drawn rectangle
    tie,       \* how the KD-tree orders equidistant centres in this call
    ret,       \* detect_image / detect_text_regions: the call's Outcome
    sel,       \* detect_selection: the returned Box or NoBox
    gap,       \* has_white_gap / has_horizontal_white_gap: the returned bool
    op,        \* the function of models/box.py applied ("none": no such call)
    boxes,     \* its argument: a list of Box
    out,       \* its return value
    cv_image,  \* auto_deskew: the image handed in
    deskewed,  \* auto_deskew: the image returned
    ui,        \* the main window over a session
    rl,        \* apply_rules: its arguments and, once made, how the call ended
    tb,        \* a Table over a session
    ed         \* the table of the editor over a session

coreVars == << fn, image, rules, W_RANGE, H_RANGE, rect, tie, ret, sel, gap >>
boxVars == << op, boxes, out >>
skewVars == << cv_image, deskewed >>
extVars == << ui, rl, tb, ed >>
vars == << pc, coreVars, boxVars, skewVars, extVars >>

\* the variables of the sessions, while single calls are checked
NoRulesCall ==
    [boxes |-> << >>, w |-> << 0, 0 >>, h |-> << 0, 0 >>, ratio |-> << Zero, Zero >>,
     status |-> "none", exc |-> None, after |-> << >>]
ExtIdle == ui = NewWindow /\ rl = NoRulesCall /\ tb = NewTableSession /\ ed = NoEditor

\* ------------------------------------------------------------------------
\* Inputs
\* ------------------------------------------------------------------------
\* Small pictures: up to MaxBlobs of these blobs on a 26 x 14 canvas.  Two are
\* 1 px apart, two 2 px apart, two touch, one is below MIN_AREA, one is grey
\* with luminance exactly 128
SmallBlobs ==
    { Blob(0, 0, 5, 5, 0), Blob(6, 0, 5, 5, 0), Blob(13, 0, 5, 4, 0),
      Blob(0, 5, 5, 4, 0), Blob(20, 8, 4, 4, 0), Blob(6, 6, 5, 5, 128) }

SmallImages ==
    { Image(26, 14, S) :
        S \in { T \in SUBSET SmallBlobs :
                  /\ Cardinality(T) <= MaxBlobs
                  /\ \A b, c \in T : b = c \/ BlobsDisjoint(b, c) } }

\* Scenario A: two filled 40 x 40 squares with 200 px between them, the first
\* at origin o; Scenario B: one filled 500 x 500 blob
ScenarioA(o) ==
    Image(o[1] + 300, o[2] + 60,
          { Blob(o[1], o[2], 40, 40, 0), Blob(o[1] + 240, o[2], 40, 40, 0) })
ScenarioAOrigins == { << 0, 0 >>, << 10, 20 >>, << FarX, 10 >>, << FarX, FarX >> }
ScenarioB == Image(600, 600, { Blob(50, 50, 500, 500, 0) })
\* Scenario C: a filled 40 x 40 square with a grey (luminance 128) strip of
\* 19 x 40 one pixel to its right, and a second filled square 200 px away
ScenarioC ==
    Image(FarX + 300, 60,
          { Blob(FarX, 10, 40, 40, 0), Blob(FarX + 41, 10, 19, 40, 128),
            Blob(FarX + 240, 10, 40, 40, 0) })

\* the files detect_current is run on
CurrentImages == { img \in SmallImages : Cardinality(img.blobs) < MaxBlobs }

ReadableImages ==
    SmallImages \cup { ScenarioA(o) : o \in ScenarioAOrigins }
        \cup { ScenarioB, ScenarioC }
Images == ReadableImages \cup { Unreadable }

Ranges ==
    { NoRange, << 4, 12 >>, << 5, 5 >>, << 12, 4 >>, << 0, 20 >>, << -3, 0 >>,
      << 30, 60 >> }
Ties == { "lo", "hi" }

\* rectangles drawn over a small picture, some reaching outside it
Rects ==
    { Box(x, y, w, h) : x \in {-2, 0, 4, 12}, y \in {-2, 0, 4}, w \in {3, 12, 30},
                        h \in {3, 12} }

\* Pictures and boxes the gap filters are applied to: an all-ink picture, one
\* with a white band, one with a white column and a grey one at luminance
\* 128, each GapMaxSize + 1 px square; boxes of every size up to GapMaxSize
GapImages ==
    LET n == GapMaxSize + 1
    IN  { Image(n, n, { Blob(0, 0, n, n, 0) }),
          Image(n, n, { Blob(0, 0, n, 2, 0), Blob(0, 3, n, n - 3, 0) }),
          Image(n, n, { Blob(0, 0, 2, n, 0), Blob(3, 0, n - 3, n, 0) }),
          Image(n, n, { Blob(0, 0, n, n, 128) }) }
\* a 100 x 25 picture whose rows 11..13 hold ink in 3 of 100 columns (an ink
\* fraction of exactly 0.03, a band of exactly 0.12 of the height), and the
\* boxes around it
GapEdgeImage ==
    Image(100, 25, { Blob(0, 0, 100, 11, 0), Blob(0, 11, 3, 3, 0),
                     Blob(0, 14, 100, 11, 0) })
GapEdgeBoxes == { Box(0, 0, w, h) : w \in {99, 100}, h \in {24, 25} }

GapBoxes ==
    { Box(x, y, w, h) : x \in {0, 1}, y \in {0, 1},
                        w \in 1..GapMaxSize, h \in 1..GapMaxSize }

\* Lists filter_boxes is applied to: widths and heights around the ends of
\* the ranges widened by the border
FilterUniverse ==
    { Box(0, 0, w, h) : w \in {14, 15, 23}, h \in {14, 22, 23} }
FilterLists == UNION { [1..n -> FilterUniverse] : n \in 0..MaxRows }

\* Boxes the geometry functions are applied to
PairUniverse ==
    { Box(x, y, w, h) : x \in 0..PairMaxPos, y \in 0..PairMaxPos,
                        w \in 0..PairMaxSize, h \in 0..PairMaxSize }
Pairs == [1..2 -> PairUniverse]

ListUniverse ==
    { Box(x, y, 1, h) : x \in {0, 1}, y \in 0..MaxY, h \in {Tall - 1, Tall} }
BoxLists == UNION { [1..n -> ListUniverse] : n \in 0..MaxBoxes }

\* Boxes merge_boxes is applied to: heights 0, 5 and 10 with vertical
\* overlaps of 3 (exactly 0.6 of 5), 4 and full
MergeUniverse ==
    { Box(x, y, 2, h) : x \in {0, 3}, y \in {0, 2, 6}, h \in {5, 10} }
        \cup { Box(0, 0, 2, 0) }
MergeLists == UNION { [1..n -> MergeUniverse] : n \in 0..MaxBoxes }

\* texts typed into a cell of the rule table, and rows of four cells
\* (w_min, w_max, h_min, h_max)
RuleRows ==
    { << << "4" >>, << "1", "2" >>, << "+", "4" >>, << "1", "2" >> >>,
      << << >>, << "2", "0" >>, << >>, << "2", "0" >> >>,
      << << "5" >>, << "5" >>, << "4" >>, << "1", "2" >> >>,
      << << "1", "2" >>, << "4" >>, << "4" >>, << "1", "2" >> >>,
      << << "-", "3" >>, << "0" >>, << "4" >>, << "1", "2" >> >>,
      << << "4" >>, << "1", "2" >>, << "4" >>, << "1", ".", "5" >> >> }
RuleTables == UNION { [1..n -> RuleRows] : n \in 0..MaxRows }

\* Segments HoughLinesP may report, one per direction, and the images
\* auto_deskew is applied to: None, an empty array, grey and BGR pictures
\* with up to MaxLines segments
Segments ==
    { << 10, 10, 10 + d[1], 10 + d[2] >> :
        d \in { << 60, 0 >>, << -60, 0 >>, << 60, 60 >>, << -60, -60 >>,
                << 60, -60 >>, << -60, 60 >>, << 0, 60 >>, << 0, -60 >>,
                << 50, 18 >>, << 50, -18 >>, << 50, 19 >>, << 50, -19 >>,
                << 50, 51 >>, << -50, 1 >>, << -50, -51 >> } }
LineLists == UNION { [1..n -> Segments] : n \in 0..MaxLines }
CvImages ==
    { CvNone, CvImage(0, 0, 3, << >>) }
    \cup { CvImage(300, 200, ch, ls) : ch \in {1, 3}, ls \in LineLists }

NoOutcome == Outcome("none", None, << >>, << >>, << >>, << >>, << >>)

\* ------------------------------------------------------------------------
\* Direct calls of the core functions
\* ------------------------------------------------------------------------
Init ==
    /\ pc = "call"
    /\ ExtIdle
    /\ ret = NoOutcome
    /\ sel = NoBox
    /\ gap = FALSE
    /\ op = "none"
    /\ out = Zero
    /\ cv_image = CvNone
    /\ deskewed = CvNone
    /\ \/ /\ fn \in { "detect_image", "detect_text_regions" }
          /\ image \in Images
          /\ W_RANGE \in Ranges
          /\ H_RANGE \in Ranges
          /\ tie \in Ties
          /\ rect = NoBox
          /\ rules = << >>
       \/ /\ fn = "detect_selection"
          /\ image \in SmallImages
          /\ rect \in Rects
          /\ W_RANGE = NoRange
          /\ H_RANGE = NoRange
          /\ tie = "lo"
          /\ rules = << >>
       \/ /\ fn \in { "has_white_gap", "has_horizontal_white_gap" }
          /\ \/ image \in GapImages /\ rect \in GapBoxes
             \/ image = GapEdgeImage /\ rect \in GapEdgeBoxes
          /\ W_RANGE = NoRange
          /\ H_RANGE = NoRange
          /\ tie = "lo"
          /\ rules = << >>
       \/ /\ fn = "detect_current"
          /\ image \in CurrentImages \cup { Unreadable, NoPath }
          /\ rules \in RuleTables
          /\ tie \in Ties
          /\ W_RANGE = NoRange
          /\ H_RANGE = NoRange
          /\ rect = NoBox
       \/ /\ fn = "filter_boxes"
          /\ image = Unreadable
          /\ W_RANGE \in Ranges
          /\ H_RANGE \in Ranges
          /\ tie = "lo"
          /\ rect = NoBox
          /\ rules = << >>
    /\ boxes \in IF fn = "filter_boxes" THEN FilterLists ELSE { << >> }

Call_detect_image ==
    /\ pc = "call"
    /\ fn = "detect_image"
    /\ ret' = detect_image(image, W_RANGE, H_RANGE, tie)
    /\ pc' = "done"
    /\ UNCHANGED << fn, image, rules, W_RANGE, H_RANGE, rect, tie, sel, gap, boxVars, skewVars, extVars >>

Call_detect_text_regions ==
    /\ pc = "call"
    /\ fn = "detect_text_regions"
    /\ ret' = detect_text_regions(image, W_RANGE, H_RANGE, tie)
    /\ pc' = "done"
    /\ UNCHANGED << fn, image, rules, W_RANGE, H_RANGE, rect, tie, sel, gap, boxVars, skewVars, extVars >>

Call_detect_selection ==
    /\ pc = "call"
    /\ fn = "detect_selection"
    /\ sel' = detect_selection(image, rect)
    /\ pc' = "done"
    /\ UNCHANGED << fn, image, rules, W_RANGE, H_RANGE, rect, tie, ret, gap, boxVars, skewVars, extVars >>

Call_detect_current ==
    /\ pc = "call"
    /\ fn = "detect_current"
    /\ ret' = detect_current(image, rules, tie)
    /\ pc' = "done"
    /\ UNCHANGED << fn, image, rules, W_RANGE, H_RANGE, rect, tie, sel, gap, boxVars, skewVars, extVars >>

Call_has_white_gap ==
    /\ pc = "call"
    /\ fn = "has_white_gap"
    /\ gap' = has_white_gap(image, rect)
    /\ pc' = "done"
    /\ UNCHANGED << fn, image, rules, W_RANGE, H_RANGE, rect, tie, ret, sel, boxVars, skewVars, extVars >>

Call_has_horizontal_white_gap ==
    /\ pc = "call"
    /\ fn = "has_horizontal_white_gap"
    /\ gap' = has_horizontal_white_gap(image, rect)
    /\ pc' = "done"
    /\ UNCHANGED << fn, image, rules, W_RANGE, H_RANGE, rect, tie, ret, sel, boxVars, skewVars, extVars >>

Call_filter_boxes ==
    /\ pc = "call"
    /\ fn = "filter_boxes"
    /\ ret' = Returned(filter_boxes(boxes, W_RANGE, H_RANGE), << >>, << >>, << >>, << >>)
    /\ pc' = "done"
    /\ UNCHANGED << fn, image, rules, W_RANGE, H_RANGE, rect, tie, sel, gap, boxVars, skewVars, extVars >>

Next ==
    \/ Call_detect_image
    \/ Call_detect_text_regions
    \/ Call_detect_selection
    \/ Call_detect_current
    \/ Call_has_white_gap
    \/ Call_has_horizontal_white_gap
    \/ Call_filter_boxes

Spec == Init /\ [][Next]_vars

\* ------------------------------------------------------------------------
\* Direct calls of the functions of models/box.py
\* ------------------------------------------------------------------------
InitBox ==
    /\ pc = "call"
    /\ ExtIdle
    /\ fn = "none"
    /\ image = Unreadable
    /\ rules = << >>
    /\ W_RANGE = NoRange
    /\ H_RANGE = NoRange
    /\ rect = NoBox
    /\ tie = "lo"
    /\ ret = NoOutcome
    /\ sel = NoBox
    /\ gap = FALSE
    /\ out = Zero
    /\ cv_image = CvNone
    /\ deskewed = CvNone
    /\ \/ /\ op \in { "iou", "ocr_iou", "coverage_ratio" }
          /\ boxes \in Pairs
       \/ /\ op = "coverage_deduplication"
          /\ boxes \in BoxLists \cup Pairs
       \/ /\ op = "merge_boxes"
          /\ boxes \in MergeLists

Call_iou ==
    /\ pc = "call"
    /\ op = "iou"
    /\ out' = iou(boxes[1], boxes[2])
    /\ pc' = "done"
    /\ UNCHANGED << op, boxes, coreVars, skewVars, extVars >>

Call_ocr_iou ==
    /\ pc = "call"
    /\ op = "ocr_iou"
    /\ out' = ocr_iou(boxes[1], boxes[2])
    /\ pc' = "done"
    /\ UNCHANGED << op, boxes, coreVars, skewVars, extVars >>

Call_coverage_ratio ==
    /\ pc = "call"
    /\ op = "coverage_ratio"
    /\ out' = coverage_ratio(boxes[1], boxes[2])
    /\ pc' = "done"
    /\ UNCHANGED << op, boxes, coreVars, skewVars, extVars >>

Call_coverage_deduplication ==
    /\ pc = "call"
    /\ op = "coverage_deduplication"
    /\ out' = coverage_deduplication(boxes)
    /\ boxes' = ArgumentAfterDedup(boxes)
    /\ pc' = "done"
    /\ UNCHANGED << op, coreVars, skewVars, extVars >>

\* the same list handed to coverage_deduplication a second time
Repeat_coverage_deduplication ==
    /\ pc = "done"
    /\ op = "coverage_deduplication"
    /\ out' = coverage_deduplication(boxes)
    /\ boxes' = ArgumentAfterDedup(boxes)
    /\ pc' = "again"
    /\ UNCHANGED << op, coreVars, skewVars, extVars >>

Call_merge_boxes ==
    /\ pc = "call"
    /\ op = "merge_boxes"
    /\ out' = ocr_merge_boxes(boxes)
    /\ boxes' = ArgumentAfterMerge(boxes)
    /\ pc' = "done"
    /\ UNCHANGED << op, coreVars, skewVars, extVars >>

\* the same list handed to merge_boxes a second time
Repeat_merge_boxes ==
    /\ pc = "done"
    /\ op = "merge_boxes"
    /\ out' = ocr_merge_boxes(boxes)
    /\ boxes' = ArgumentAfterMerge(boxes)
    /\ pc' = "again"
    /\ UNCHANGED << op, coreVars, skewVars, extVars >>

NextBox ==
    \/ Call_iou
    \/ Call_ocr_iou
    \/ Call_coverage_ratio
    \/ Call_coverage_deduplication
    \/ Call_merge_boxes
    \/ Repeat_coverage_deduplication
    \/ Repeat_merge_boxes

SpecBox == InitBox /\ [][NextBox]_vars

\* ------------------------------------------------------------------------
\* Direct calls of auto_deskew
\* ------------------------------------------------------------------------
InitDeskew ==
    /\ pc = "call"
    /\ ExtIdle
    /\ fn = "auto_deskew"
    /\ image = Unreadable
    /\ rules = << >>
    /\ W_RANGE = NoRange
    /\ H_RANGE = NoRange
    /\ rect = NoBox
    /\ tie = "lo"
    /\ ret = NoOutcome
    /\ sel = NoBox
    /\ gap = FALSE
    /\ op = "none"
    /\ boxes = << >>
    /\ out = Zero
    /\ cv_image \in CvImages
    /\ deskewed = CvNone

Call_auto_deskew ==
    /\ pc = "call"
    /\ fn = "auto_deskew"
    /\ deskewed' = auto_deskew(cv_image)
    /\ pc' = "done"
    /\ UNCHANGED << cv_image, coreVars, boxVars, extVars >>

NextDeskew == Call_auto_deskew

SpecDeskew == InitDeskew /\ [][NextDeskew]_vars

\* ------------------------------------------------------------------------
\* A session of the main window
\* ------------------------------------------------------------------------
\* the variables of the single calls, while a session is checked
CallsIdle ==
    /\ fn = "none"
    /\ image = Unreadable
    /\ rules = << >>
    /\ W_RANGE = NoRange
    /\ H_RANGE = NoRange
    /\ rect = NoBox
    /\ tie = "lo"
    /\ ret = NoOutcome
    /\ sel = NoBox
    /\ gap = FALSE
    /\ op = "none"
    /\ boxes = << >>
    /\ out = Zero
    /\ cv_image = CvNone
    /\ deskewed = CvNone

\* boxes a detection run or a manual selection may yield
UiBoxes == { Box(0, 0, 15, 15), Box(20, 0, 15, 15) }
UiLists == UNION { [1..n -> UiBoxes] : n \in 0..MaxItems }
UiFileLists == { << ScanA >>, << ScanA, ScanB >> }

InitUi ==
    /\ pc = "ui"
    /\ CallsIdle
    /\ ui = NewWindow
    /\ rl = NoRulesCall
    /\ tb = NewTableSession /\ ed = NoEditor

Ui_add_files ==
    /\ pc = "ui"
    /\ \E paths \in UiFileLists : ui' = add_files(ui, paths)
    /\ UNCHANGED << pc, coreVars, boxVars, skewVars, rl, tb, ed >>

Ui_on_file_changed ==
    /\ pc = "ui"
    /\ \E r \in 1..Len(ui.files) : r # ui.row /\ ui' = on_file_changed(ui, r)
    /\ UNCHANGED << pc, coreVars, boxVars, skewVars, rl, tb, ed >>

Ui_detect_current ==
    /\ pc = "ui"
    /\ \E final_boxes \in UiLists : ui' = ui_detect_current(ui, final_boxes)
    /\ UNCHANGED << pc, coreVars, boxVars, skewVars, rl, tb, ed >>

Ui_on_selection_finished ==
    /\ pc = "ui"
    /\ Len(ui.box_items) < MaxItems
    /\ \E box \in UiBoxes \cup { NoBox } : ui' = on_selection_finished(ui, box)
    /\ UNCHANGED << pc, coreVars, boxVars, skewVars, rl, tb, ed >>

Ui_delete_selected_boxes ==
    /\ pc = "ui"
    /\ \E chosen \in SUBSET (1..Len(ui.box_items)) :
          ui' = delete_selected_boxes(ui, chosen)
    /\ UNCHANGED << pc, coreVars, boxVars, skewVars, rl, tb, ed >>

Ui_export_current ==
    /\ pc = "ui"
    /\ \E final_boxes \in UiLists : ui' = export_current(ui, final_boxes)
    /\ UNCHANGED << pc, coreVars, boxVars, skewVars, rl, tb, ed >>

NextUi ==
    \/ Ui_add_files
    \/ Ui_on_file_changed
    \/ Ui_detect_current
    \/ Ui_on_selection_finished
    \/ Ui_delete_selected_boxes
    \/ Ui_export_current

SpecUi == InitUi /\ [][NextUi]_vars

\* ------------------------------------------------------------------------
\* One call of apply_rules
\* ------------------------------------------------------------------------
\* Boxes as the dataclass makes them, and boxes given a `locked` attribute
RuleShapes == { << 4, 2 >>, << 2, 4 >>, << 3, 0 >> }
RuleBoxes ==
    LET plain == { [Box(1, 1, s[1], s[2]) EXCEPT !.selected = sel0] :
                     s \in RuleShapes, sel0 \in BOOLEAN }
    IN  plain \cup { WithLocked(b, l) : b \in plain, l \in BOOLEAN }
RuleBoxLists == UNION { [1..n -> RuleBoxes] : n \in 0..MaxItems }
RuleSizeRanges == { << 0, 10 >>, << 3, 3 >>, << 1, 2 >> }
RuleRatioRanges == { << Zero, Rat(10, 1) >>, << One, Rat(2, 1) >> }

InitRules ==
    /\ pc = "call"
    /\ CallsIdle
    /\ ui = NewWindow
    /\ tb = NewTableSession /\ ed = NoEditor
    /\ \E bs \in RuleBoxLists, w \in RuleSizeRanges, h \in RuleSizeRanges,
          ratio \in RuleRatioRanges :
          rl = [NoRulesCall EXCEPT !.boxes = bs, !.w = w, !.h = h, !.ratio = ratio]

Call_apply_rules ==
    /\ pc = "call"
    /\ rl.status = "none"
    /\ LET r == apply_rules(rl.boxes, rl.w, rl.h, rl.ratio)
       IN  rl' = [rl EXCEPT !.status = r.status, !.exc = r.exc, !.after = r.boxes]
    /\ pc' = "done"
    /\ UNCHANGED << coreVars, boxVars, skewVars, ui, tb, ed >>

NextRules == Call_apply_rules

SpecRules == InitRules /\ [][NextRules]_vars

\* ------------------------------------------------------------------------
\* A session of calls on one Table
\* ------------------------------------------------------------------------
MaxOps == 3
TableRowArgs == 0..1
TableColArgs == 0..2
TableTexts == { EmptyStr, << "a", "b" >> }
TablePaths == { << "p" >> }
TableCursors == 0..2

InitTable ==
    /\ pc = "table"
    /\ CallsIdle
    /\ ui = NewWindow
    /\ rl = NoRulesCall
    /\ tb = NewTableSession /\ ed = NoEditor

\* the session after a call that leaves `cells`
AfterCall(cells, call) ==
    [cells |-> cells, prev |-> tb.cells, op |-> call, n |-> tb.n + 1]

Table_set_text ==
    /\ pc = "table"
    /\ tb.n < MaxOps
    /\ \E row \in TableRowArgs, col \in TableColArgs, text \in TableTexts :
          tb' = AfterCall(set_text(tb.cells, row, col, text),
                          [NoOp EXCEPT !.name = "set_text", !.row = row,
                                       !.col = col, !.text = text])
    /\ UNCHANGED << pc, coreVars, boxVars, skewVars, ui, rl, ed >>

Table_set_image ==
    /\ pc = "table"
    /\ tb.n < MaxOps
    /\ \E row \in TableRowArgs, path \in TablePaths :
          tb' = AfterCall(set_image(tb.cells, row, path),
                          [NoOp EXCEPT !.name = "set_image", !.row = row,
                                       !.col = IMAGE_PATH_COL, !.text = path])
    /\ UNCHANGED << pc, coreVars, boxVars, skewVars, ui, rl, ed >>

Table_split_cell ==
    /\ pc = "table"
    /\ tb.n < MaxOps
    /\ \E row \in TableRowArgs, col \in TableColArgs, cursor \in TableCursors :
          tb' = AfterCall(split_cell(tb.cells, row, col, cursor),
                          [NoOp EXCEPT !.name = "split_cell", !.row = row,
                                       !.col = col, !.cursor = cursor])
    /\ UNCHANGED << pc, coreVars, boxVars, skewVars, ui, rl, ed >>

NextTable == Table_set_text \/ Table_set_image \/ Table_split_cell

SpecTable == InitTable /\ [][NextTable]_vars

\* ------------------------------------------------------------------------
\* A session of the table editor
\* ------------------------------------------------------------------------
MaxEdits == 2
MaxEditorRows == 3
EditorTexts == { EmptyStr, << "a", "b" >>, << " " >>, << "a", "*", "b" >> }
EditorCols == 0..1
\* tables of two columns: column 0 of any texts, column 1 of "b"
EditorTables ==
    UNION { { [r \in 1..n |-> << column[r], << "b" >> >>] :
                column \in [1..n -> EditorTexts] } : n \in 2..MaxEditorRows }

InitEditor ==
    /\ pc = "editor"
    /\ CallsIdle
    /\ ui = NewWindow
    /\ rl = NoRulesCall
    /\ tb = NewTableSession
    /\ \E table \in EditorTables : ed = [NoEditor EXCEPT !.table = table]

\* the session after an operation that leaves `table`
AfterEdit(table, name, row, col, cursor) ==
    [table |-> table,
     last |-> [name |-> name, row |-> row, col |-> col, cursor |-> cursor,
               before |-> ed.table],
     prior |-> ed.last, n |-> ed.n + 1]

\* ctrl + u in the line edit of (row, col), the cursor anywhere in its text
Editor_split_operation ==
    /\ pc = "editor"
    /\ ed.n < MaxEdits
    /\ \E row \in 0..(table_len(ed.table) - 2), col \in EditorCols :
          \E cursor \in 0..Len(get_cell(ed.table, row, col)) :
              ed' = AfterEdit(split_operation(ed.table, row, col, cursor,
                                              get_cell(ed.table, row, col)),
                              "split", row, col, cursor)
    /\ UNCHANGED << pc, coreVars, boxVars, skewVars, ui, rl, tb >>

\* ctrl + i in the line edit of (row, col)
Editor_merge_operation ==
    /\ pc = "editor"
    /\ ed.n < MaxEdits
    /\ \E row \in 0..(table_len(ed.table) - 1), col \in EditorCols :
          ed' = AfterEdit(merge_operation(ed.table, row, col), "merge", row, col, 0)
    /\ UNCHANGED << pc, coreVars, boxVars, skewVars, ui, rl, tb >>

NextEditor == Editor_split_operation \/ Editor_merge_operation

SpecEditor == InitEditor /\ [][NextEditor]_vars

\* ------------------------------------------------------------------------
\* Any one call of a function that returns boxes
\* ------------------------------------------------------------------------
InitProducers ==
    Init \/ (InitBox /\ op \in { "coverage_deduplication", "merge_boxes" })

NextProducers == Next \/ Call_coverage_deduplication \/ Call_merge_boxes

SpecProducers == InitProducers /\ [][NextProducers]_vars

\* ------------------------------------------------------------------------
\* Reference notions used by the properties, from pixels
\* ------------------------------------------------------------------------
PixelsOf(b) ==
    { << x, y >> : x \in b.x..(b.x + b.w - 1), y \in b.y..(b.y + b.h - 1) }

\* |a & b| / min(|a|, |b|) as a rational, 0 when the smaller box is empty
PixelCoverage(a, b) ==
    LET m == Min2(Cardinality(PixelsOf(a)), Cardinality(PixelsOf(b)))
    IN  IF m = 0 THEN Zero ELSE Rat(Cardinality(PixelsOf(a) \cap PixelsOf(b)), m)

Nested(a, b) ==
    /\ PixelsOf(a) # {}
    /\ PixelsOf(b) # {}
    /\ (PixelsOf(a) \subseteq PixelsOf(b) \/ PixelsOf(b) \subseteq PixelsOf(a))

IsDetect == fn \in { "detect_image", "detect_text_regions" }
BothRanges == W_RANGE # NoRange /\ H_RANGE # NoRange

\* the pixels of the image darker than 128 that lie inside rectangle r
InkInside(img, r) ==
    { p \in PixelsOf(r) :
        /\ 0 <= p[1] /\ p[1] < img.width
        /\ 0 <= p[2] /\ p[2] < img.height
        /\ \E b \in img.blobs : b.lum < INK_LEVEL /\ p \in PixelsOf(b) }

\* ------------------------------------------------------------------------
\* Properties
\* ------------------------------------------------------------------------

\* C1: with both ranges supplied, every box region growing records for a
\* seed (before border expansion) has wmin <= w <= wmax and hmin <= h <= hmax;
\* a seed that alone exceeds a maximum records nothing, and an image whose
\* only component is oversized makes the detector return [].
C1_CandidatesWithinRange ==
    (pc = "done" /\ IsDetect /\ BothRanges) =>
        /\ \A i \in 1..Len(ret.grown) :
              LET best == ret.grown[i].best_valid
                  seed == ret.components[i]
              IN  /\ best # NoBox =>
                        /\ W_RANGE[1] <= best.w /\ best.w <= W_RANGE[2]
                        /\ H_RANGE[1] <= best.h /\ best.h <= H_RANGE[2]
                  /\ (seed.w > W_RANGE[2] \/ seed.h > H_RANGE[2]) => best = NoBox
        /\ \A j \in 1..Len(ret.candidates) :
              /\ W_RANGE[1] <= ret.candidates[j].w /\ ret.candidates[j].w <= W_RANGE[2]
              /\ H_RANGE[1] <= ret.candidates[j].h /\ ret.candidates[j].h <= H_RANGE[2]
        /\ ( /\ Len(ret.components) = 1
             /\ (ret.components[1].w > W_RANGE[2] \/ ret.components[1].h > H_RANGE[2]) )
           => (ret.status = "returned" /\ ret.result = << >>)

\* a call in which one seed grew by a neighbour and recorded the merged box
\* while the image also holds a seed that recorded nothing
C1_Witness ==
    /\ pc = "done" /\ IsDetect /\ BothRanges
    /\ \E i \in 1..Len(ret.grown) :
          /\ ret.grown[i].best_valid # NoBox
          /\ Len(ret.grown[i].path) > 1
          /\ ret.grown[i].best_valid.w > ret.components[i].w
    /\ \E i \in 1..Len(ret.grown) : ret.grown[i].best_valid = NoBox

\* C2: the list coverage_deduplication returns holds no two boxes whose
\* coverage (intersection area over the smaller area) exceeds 0.95.
C2_NoCoveredPair ==
    (pc = "done" /\ op = "coverage_deduplication") =>
        \A i, j \in 1..Len(out) :
            i # j => RatLe(PixelCoverage(out[i], out[j]), Rat(19, 20))

\* a call that dropped a box and kept at least two
C2_Witness ==
    /\ pc = "done" /\ op = "coverage_deduplication"
    /\ Len(out) >= 2
    /\ Len(out) < Len(boxes)

\* C3: with the width range, the height range or both missing, the detector
\* returns an empty list and raises nothing, for every image.
C3_MissingRangeReturnsEmpty ==
    (pc = "done" /\ IsDetect /\ image.readable /\ ~BothRanges) =>
        (ret.status = "returned" /\ ret.result = << >>)

\* C4: for an image file that cannot be read the detector returns an empty
\* list instead of raising.
C4_UnreadableReturnsEmpty ==
    (pc = "done" /\ fn = "detect_image" /\ ~image.readable) =>
        (ret.status = "returned" /\ ret.result = << >>)

InvalidRange(r) == r # NoRange /\ (r[1] >= r[2] \/ r[1] <= 0 \/ r[2] <= 0)
EmptyRange(r) == r # NoRange /\ (r[1] > r[2] \/ r[2] <= 0)

RowGivesNothing(row) ==
    LET w_min == ParseCell(row[1])
        w_max == ParseCell(row[2])
        h_min == ParseCell(row[3])
        h_max == ParseCell(row[4])
    IN  \/ ~(w_min.ok /\ w_max.ok /\ h_min.ok /\ h_max.ok)
        \/ w_min.value >= w_max.value \/ h_min.value >= h_max.value
        \/ w_max.value <= 0 \/ h_max.value <= 0

PositiveSize(b) == b.w > 0 /\ b.h > 0

\* C6: for boxes with w > 0 and h > 0: iou(a, a) = 1, iou(a, b) = iou(b, a),
\* 0 <= iou(a, b) <= 1, and iou(a, b) = 0 when a and b do not overlap.
C6_IouProperties ==
    (pc = "done" /\ op \in { "iou", "ocr_iou" }
        /\ PositiveSize(boxes[1]) /\ PositiveSize(boxes[2])) =>
        LET a == boxes[1]
            b == boxes[2]
            swapped == IF op = "iou" THEN iou(b, a) ELSE ocr_iou(b, a)
        IN  /\ out.d > 0
            /\ RatEq(out, swapped)
            /\ RatLe(Zero, out) /\ RatLe(out, One)
            /\ (a = b => RatEq(out, One))
            /\ (PixelsOf(a) \cap PixelsOf(b) = {} => RatEq(out, Zero))

\* a call on two different boxes that overlap in part
C6_Witness ==
    /\ pc = "done" /\ op = "iou"
    /\ PositiveSize(boxes[1]) /\ PositiveSize(boxes[2])
    /\ boxes[1] # boxes[2]
    /\ RatLt(Zero, out) /\ RatLt(out, One)

\* C7: 0 <= coverage_ratio(a, b) <= 1; when one box with positive area lies
\* inside the other, coverage_ratio(a, b) = coverage_ratio(b, a) = 1; and
\* coverage_ratio is 0 when the smaller area is 0.
C7_CoverageProperties ==
    (pc = "done" /\ op = "coverage_ratio") =>
        LET a == boxes[1]
            b == boxes[2]
        IN  /\ out.d > 0
            /\ RatLe(Zero, out) /\ RatLe(out, One)
            /\ (PixelsOf(a) # {} /\ PixelsOf(a) \subseteq PixelsOf(b)) =>
                  (RatEq(out, One) /\ RatEq(coverage_ratio(b, a), One))
            /\ Min2(area(a), area(b)) = 0 => RatEq(out, Zero)

\* a call on a box lying strictly inside a larger one
C7_Witness ==
    /\ pc = "done" /\ op = "coverage_ratio"
    /\ PixelsOf(boxes[1]) # {}
    /\ PixelsOf(boxes[1]) \subseteq PixelsOf(boxes[2])
    /\ PixelsOf(boxes[1]) # PixelsOf(boxes[2])

ScenarioRange == << 30, 60 >>

\* C8: for two isolated filled 40 x 40 squares 200 px apart, anywhere in the
\* image, detect_image with w = h = (30, 60) returns exactly 2 boxes, one per
\* square, each the square extended by the border on every side.
C8_ScenarioA ==
    \A o \in ScenarioAOrigins :
        (pc = "done" /\ fn = "detect_image" /\ image = ScenarioA(o)
            /\ W_RANGE = ScenarioRange /\ H_RANGE = ScenarioRange) =>
            /\ ret.status = "returned"
            /\ Len(ret.result) = 2
            /\ Range(ret.result) =
                 { Box(o[1] - BORDER, o[2] - BORDER, 40 + 2 * BORDER, 40 + 2 * BORDER),
                   Box(o[1] + 240 - BORDER, o[2] - BORDER,
                       40 + 2 * BORDER, 40 + 2 * BORDER) }

\* C9: for two boxes one of which lies fully inside the other (coverage 1.0),
\* coverage_deduplication([a, b]) and coverage_deduplication([b, a]) each
\* return exactly one box, one of the two inputs.
C9_NestedPairGivesOne ==
    (pc = "done" /\ op = "coverage_deduplication" /\ Len(boxes) = 2
        /\ Nested(boxes[1], boxes[2])) =>
        LET back == coverage_deduplication(<< boxes[2], boxes[1] >>)
        IN  /\ Len(out) = 1
            /\ out[1] \in { boxes[1], boxes[2] }
            /\ Len(back) = 1
            /\ back[1] \in { boxes[1], boxes[2] }

\* a call on a box and a strictly larger box around it
C9_Witness ==
    /\ pc = "done" /\ op = "coverage_deduplication" /\ Len(boxes) = 2
    /\ Nested(boxes[1], boxes[2])
    /\ PixelsOf(boxes[1]) # PixelsOf(boxes[2])

\* the box C10 describes: the bounding box of the ink inside the rectangle,
\* expanded by BORDER, marked manual
TightInkBox(ink) ==
    LET min_x == MinOf({ p[1] : p \in ink })
        max_x == MaxOf({ p[1] : p \in ink })
        min_y == MinOf({ p[2] : p \in ink })
        max_y == MaxOf({ p[2] : p \in ink })
    IN  [x |-> min_x - BORDER, y |-> min_y - BORDER,
         w |-> max_x - min_x + 1 + 2 * BORDER, h |-> max_y - min_y + 1 + 2 * BORDER,
         selected |-> TRUE, source |-> "manual"]

\* C10: detect_selection returns None iff the rectangle holds no ink pixel,
\* and otherwise the bounding box of the ink inside the rectangle expanded by
\* BORDER on every side, with source = manual.
C10_SelectionIsTightInkBox ==
    (pc = "done" /\ fn = "detect_selection") =>
        LET ink == InkInside(image, rect)
        IN  /\ (sel = NoBox) <=> (ink = {})
            /\ ink # {} => sel = TightInkBox(ink)

\* C10 restricted to rectangles that lie inside the image, where the crop
\* needs no padding
C10_InsideImage ==
    (pc = "done" /\ fn = "detect_selection"
        /\ rect.x >= 0 /\ rect.y >= 0
        /\ rect.x + rect.w <= image.width /\ rect.y + rect.h <= image.height) =>
        LET ink == InkInside(image, rect)
        IN  /\ (sel = NoBox) <=> (ink = {})
            /\ ink # {} => sel = TightInkBox(ink)

\* the number of rows two boxes share
VerticalOverlap(a, b) == Min2(a.y + a.h, b.y + b.h) - Max2(a.y, b.y)

\* the union rectangle of the boxes of bs with index in group
UnionRectangle(bs, group) == BoundingBox({ bs[k] : k \in group })

\* C11: the list merge_boxes (ocr/merge.py) returns holds no two boxes whose
\* vertical overlap exceeds 0.6 of the smaller of their heights, and every
\* returned box is the union rectangle of the input boxes merged into it.
C11_MergedNoVerticalOverlap ==
    (pc = "done" /\ op = "merge_boxes") =>
        LET r == MergeRun(boxes)
        IN  /\ \A i, j \in 1..Len(out) :
                  (i # j /\ VerticalOverlap(out[i], out[j]) > 0) =>
                      RatLe(Rat(VerticalOverlap(out[i], out[j]),
                                Min2(out[i].h, out[j].h)), Rat(3, 5))
            /\ \A i \in 1..Len(out) : out[i] = UnionRectangle(boxes, r.groups[i])

\* C11, the part that holds: every returned box is the union rectangle of
\* the input boxes merged into it, and every input box is merged into
\* exactly one returned box
C11_MergedIsUnion ==
    (pc = "done" /\ op = "merge_boxes") =>
        LET r == MergeRun(boxes)
        IN  /\ \A i \in 1..Len(out) : out[i] = UnionRectangle(boxes, r.groups[i])
            /\ \A k \in 1..Len(boxes) :
                  Cardinality({ i \in 1..Len(out) : k \in r.groups[i] }) = 1

\* the segments of an image whose angle is not near 180 degrees, and the
\* angle each contributes, relative to the nearer axis
Survivors(img) ==
    { k \in 1..Len(img.lines) : Abs(LineAngle(img.lines[k])) <= 135000 }
AxisAngle(line) ==
    LET a == LineAngle(line)
    IN  IF Abs(a) <= 45000 THEN a ELSE IF a > 0 THEN a - 90000 ELSE a + 90000

\* the r-th smallest of the survivors' angles: fewer than r of them are
\* below it and at least r of them are not above it
RankValue(img, r) ==
    LET S == Survivors(img)
    IN  CHOOSE v \in { AxisAngle(img.lines[k]) : k \in S } :
            /\ Cardinality({ k \in S : AxisAngle(img.lines[k]) < v }) < r
            /\ Cardinality({ k \in S : AxisAngle(img.lines[k]) <= v }) >= r

\* twice the median of the survivors' angles (in 1/2000 degree)
MedianHalf(img) ==
    LET n == Cardinality(Survivors(img))
    IN  RankValue(img, (n + 1) \div 2) + RankValue(img, n \div 2 + 1)

\* C12: auto_deskew returns its input unchanged whenever estimate_skew_angle
\* returns None; estimate_skew_angle returns None whenever the image is None
\* or empty, no line is detected, no angle survives normalization, or the
\* median angle exceeds 20 degrees in magnitude; otherwise the image is
\* rotated by minus the median angle and keeps its width and height.
C12_DeskewContract ==
    (pc = "done" /\ fn = "auto_deskew") =>
        LET angle == estimate_skew_angle(cv_image)
            unusable == \/ ~cv_image.present
                        \/ cv_image.width * cv_image.height = 0
                        \/ cv_image.lines = << >>
                        \/ Survivors(cv_image) = {}
            tooSteep == ~unusable /\ Abs(MedianHalf(cv_image)) > 40000
        IN  /\ ~angle.defined => deskewed = cv_image
            /\ (unusable \/ tooSteep) => ~angle.defined
            /\ ~(unusable \/ tooSteep) =>
                  /\ angle.defined
                  /\ angle.half = MedianHalf(cv_image)
                  /\ deskewed.present
                  /\ deskewed.width = cv_image.width
                  /\ deskewed.height = cv_image.height
                  /\ deskewed.channels = cv_image.channels
                  /\ deskewed.turned = cv_image.turned - angle.half

\* a call that rotated the image by a non-zero angle although one of its
\* segments was discarded and another was taken relative to the vertical
C12_Witness ==
    /\ pc = "done" /\ fn = "auto_deskew"
    /\ deskewed.turned # 0
    /\ Survivors(cv_image) # 1..Len(cv_image.lines)
    /\ \E k \in Survivors(cv_image) : Abs(LineAngle(cv_image.lines[k])) > 45000

\* the crop of box r is entirely ink: r lies inside the image and every one
\* of its pixels is darker than 128
SolidCrop(img, r) ==
    /\ r.x >= 0 /\ r.y >= 0
    /\ r.x + r.w <= img.width /\ r.y + r.h <= img.height
    /\ InkInside(img, r) = PixelsOf(r)

IsGapFilter == fn \in { "has_white_gap", "has_horizontal_white_gap" }

\* C13: on a box whose crop is entirely ink, with w >= 1 and h >= 1, the gap
\* filter (has_white_gap, has_horizontal_white_gap) returns false.
C13_SolidBoxNotRejected ==
    (pc = "done" /\ IsGapFilter /\ rect.w >= 1 /\ rect.h >= 1
        /\ SolidCrop(image, rect)) => ~gap

\* a call on a solid box at least 8 px high and wide, which a filter looking
\* for a blank run of 12 percent could reject if one row or column were blank
C13_Witness ==
    /\ pc = "done" /\ IsGapFilter
    /\ rect.w >= 8 /\ rect.h >= 8
    /\ SolidCrop(image, rect)
    /\ ~gap

AllPositive(bs) == \A k \in 1..Len(bs) : PositiveSize(bs[k])

\* C14: every Box the core produces has w > 0 and h > 0: the components,
\* merged boxes, candidates and final boxes of the detectors, the result of
\* detect_selection, the list detect_current stores, and the outputs of
\* coverage_deduplication and merge_boxes given boxes of positive size.
C14_BoxesHavePositiveSize ==
    /\ (pc = "done" /\ fn \in { "detect_image", "detect_text_regions", "detect_current" }) =>
          /\ AllPositive(ret.components)
          /\ AllPositive(ret.candidates)
          /\ AllPositive(ret.result)
          /\ \A i \in 1..Len(ret.grown) :
                /\ ret.grown[i].best_valid # NoBox => PositiveSize(ret.grown[i].best_valid)
                /\ \A s \in 1..Len(ret.grown[i].path) :
                      PositiveSize(ret.grown[i].path[s].current)
    /\ (pc = "done" /\ fn = "detect_selection" /\ sel # NoBox) => PositiveSize(sel)
    /\ (pc = "done" /\ op \in { "coverage_deduplication", "merge_boxes" }
          /\ AllPositive(boxes)) => AllPositive(out)

\* a call of detect_image that returned a box grown from two components
C14_Witness ==
    /\ pc = "done" /\ fn = "detect_image"
    /\ ret.result # << >>
    /\ \E j \in 1..Len(ret.candidates) :
          \A i \in 1..Len(ret.components) : ret.candidates[j] # ret.components[i]

NearestUnused(comps, box, used) ==
    LET n == Len(comps)
        c == Center2(box)
        free == (1..n) \ used
        key == [j \in free |->
                  Dist2(Center2(comps[j]), c) * (n + 1)
                    + (IF tie = "lo" THEN j ELSE n - j)]
        order == SeqByKey(free, key)
    IN  SubSeq(order, 1, Min2(8, Len(order)))

\* the nearest of them whose inclusion keeps the merged box within both
\* maxima; 0 when there is none
NearestAddable(comps, used) ==
    LET merged == BoundingBox({ comps[k] : k \in used })
        near == NearestUnused(comps, merged, used)
        fits == { p \in 1..Len(near) :
                    ~ExceedsMax(BoundingBox({ comps[k] : k \in used \cup {near[p]} }),
                                W_RANGE, H_RANGE) }
    IN  IF fits = {} THEN 0 ELSE near[MinOf(fits)]

\* C16: at every step of a seed's growth path the grower adds the nearest of
\* the (up to 8) nearest unused components whose inclusion keeps the merged
\* box within both maxima, and the path ends at a step only if there is none.
C16_NearestUnusedIsAdded ==
    (pc = "done" /\ IsDetect /\ BothRanges /\ ret.status = "returned") =>
        \A i \in 1..Len(ret.grown) :
            LET path == ret.grown[i].path
            IN  \A s \in 1..Len(path) :
                    LET next == NearestAddable(ret.components, path[s].used)
                    IN  IF next = 0 THEN s = Len(path)
                        ELSE /\ s < Len(path)
                             /\ path[s + 1].used = path[s].used \cup {next}

\* the candidates the IOU suppression kept: detect_image's NMS indices, and
\* for detect_text_regions the boxes of final with the border taken off
KeptCandidates ==
    IF fn = "detect_image"
    THEN [k \in 1..Len(ret.indices) |-> ret.candidates[ret.indices[k]]]
    ELSE [k \in 1..Len(ret.result) |->
            Box(ret.result[k].x + BORDER, ret.result[k].y + BORDER,
                ret.result[k].w - BORDER * 2, ret.result[k].h - BORDER * 2)]

\* the candidates the IOU suppression looked at and dropped
DroppedCandidates ==
    IF fn = "detect_image"
    THEN { ret.candidates[j] :
             j \in (1..Len(ret.candidates)) \ { ret.indices[k] : k \in 1..Len(ret.indices) } }
    ELSE { ret.candidates[j] :
             j \in { i \in 1..Len(ret.candidates) :
                       /\ ~has_horizontal_white_gap(image, ret.candidates[i])
                       /\ \A k \in 1..Len(ret.result) :
                              ret.result[k] # Expanded(ret.candidates[i]) } }

C17_KeptInAreaOrder ==
    \A p \in 1..Len(KeptCandidates) : \A q \in 1..Len(KeptCandidates) :
        p < q => area(KeptCandidates[p]) >= area(KeptCandidates[q])

C17_KeptPairwiseBelow ==
    \A p \in 1..Len(KeptCandidates) : \A q \in 1..Len(KeptCandidates) :
        p # q => RatLt(iou(KeptCandidates[p], KeptCandidates[q]), IOU_THRESH)

C17_DroppedHasCause ==
    \A c \in DroppedCandidates :
        \E k \in 1..Len(KeptCandidates) :
            RatGe(iou(c, KeptCandidates[k]), IOU_THRESH)

\* C17: the IOU suppression of detect keeps candidates in descending area
\* order, no two kept candidates have an IOU (on their true rectangles) of
\* 0.7 or more, and every dropped candidate has an IOU of 0.7 or more with a
\* kept one.
C17_IouSuppression ==
    (pc = "done" /\ IsDetect /\ ret.status = "returned") =>
        /\ C17_KeptInAreaOrder
        /\ C17_KeptPairwiseBelow
        /\ C17_DroppedHasCause

\* the gap filter of the detector that ran
GapRejects(box) ==
    IF fn = "detect_image" THEN has_white_gap(image, box)
    ELSE has_horizontal_white_gap(image, box)

\* the candidates that pass the gap filter and whose expansion is in the output
GapPassingKept ==
    { c \in Range(ret.candidates) :
        ~GapRejects(c) /\ Expanded(c) \in Range(ret.result) }

\* the candidates detect_image's NMSBoxes call dropped candidate j for
Suppressors(j) ==
    { ret.indices[k] : k \in { q \in 1..Len(ret.indices) :
        RatGt(RectOverlap(BoxesNp(ret.candidates)[j],
                          BoxesNp(ret.candidates)[ret.indices[q]]), IOU_THRESH) } }

\* no candidate that passes the gap filter was dropped by NMSBoxes only for
\* candidates the gap filter rejects
C18_RejectedNeverSuppresses ==
    fn = "detect_image" =>
        \A j \in 1..Len(ret.candidates) :
            ( /\ ~GapRejects(ret.candidates[j])
              /\ j \notin Range(ret.indices) )
            => \E k \in Suppressors(j) : ~GapRejects(ret.candidates[k])

\* C18: the gap filter comes before deduplication: a candidate the gap
\* filter rejects never causes another to be suppressed, so every candidate
\* that passes the gap filter and has IOU below 0.7 with every other
\* gap-passing kept candidate appears (expanded) in the output.
C18_GapFilterBeforeDedup ==
    (pc = "done" /\ IsDetect /\ ret.status = "returned") =>
      /\ C18_RejectedNeverSuppresses
      /\ \A c \in Range(ret.candidates) :
            ( /\ ~GapRejects(c)
              /\ \A d \in GapPassingKept \ {c} : RatLt(iou(c, d), IOU_THRESH) )
            => Expanded(c) \in Range(ret.result)

\* rectangle a contains rectangle b
ContainsBox(a, b) ==
    /\ a.x <= b.x /\ a.y <= b.y
    /\ b.x + b.w <= a.x + a.w /\ b.y + b.h <= a.y + a.h

\* the steps of a path whose merged box has width and height within range
InRangeSteps(path) ==
    { s \in 1..Len(path) :
        /\ W_RANGE[1] <= path[s].current.w /\ path[s].current.w <= W_RANGE[2]
        /\ H_RANGE[1] <= path[s].current.h /\ path[s].current.h <= H_RANGE[2] }

\* C19: along a seed's growth path each later merged box contains every
\* earlier one (w and h never decrease), and the seed's best valid box is
\* the last in-range merged box of the path, which contains every in-range
\* merged box of the path.
C19_PathGrowsBestIsLast ==
    (pc = "done" /\ IsDetect /\ BothRanges) =>
        \A i \in 1..Len(ret.grown) :
            LET path == ret.grown[i].path
                best == ret.grown[i].best_valid
                inr == InRangeSteps(path)
            IN  /\ \A s \in 1..Len(path) : \A t \in 1..Len(path) :
                       s < t => /\ ContainsBox(path[t].current, path[s].current)
                                /\ path[s].current.w <= path[t].current.w
                                /\ path[s].current.h <= path[t].current.h
                /\ IF inr = {} THEN best = NoBox
                   ELSE /\ best = path[MaxOf(inr)].current
                        /\ \A s \in inr : ContainsBox(best, path[s].current)

\* a path of at least two steps with two in-range merged boxes, the second
\* strictly larger and recorded as the best valid box
C19_Witness ==
    /\ pc = "done" /\ IsDetect /\ BothRanges
    /\ \E i \in 1..Len(ret.grown) :
          LET path == ret.grown[i].path
          IN  /\ Len(path) >= 2
              /\ {1, 2} \subseteq InRangeSteps(path)
              /\ area(path[2].current) > area(path[1].current)
              /\ ret.grown[i].best_valid = path[Len(path)].current

\* width and height lie in the ranges widened by the border on both sides
InWidenedRanges(b) ==
    /\ W_RANGE[1] + 10 <= b.w /\ b.w <= W_RANGE[2] + 10
    /\ H_RANGE[1] + 10 <= b.h /\ b.h <= H_RANGE[2] + 10

\* C20: every box in detect's output is an accepted (in-range) candidate
\* (x, y, w, h) expanded to (x-5, y-5, w+10, h+10), so its width lies in
\* [wmin+10, wmax+10] and its height in [hmin+10, hmax+10]; filter_boxes
\* keeps exactly the boxes within those widened ranges, hence all of
\* detect's output.
C20_OutputIsExpandedCandidate ==
    (pc = "done" /\ BothRanges /\ ret.status = "returned") =>
        /\ IsDetect =>
              /\ \A k \in 1..Len(ret.result) :
                    /\ \E j \in 1..Len(ret.candidates) :
                          LET c == ret.candidates[j]
                          IN  /\ ret.result[k] = Box(c.x - 5, c.y - 5, c.w + 10, c.h + 10)
                              /\ W_RANGE[1] <= c.w /\ c.w <= W_RANGE[2]
                              /\ H_RANGE[1] <= c.h /\ c.h <= H_RANGE[2]
                    /\ InWidenedRanges(ret.result[k])
              /\ filter_boxes(ret.result, W_RANGE, H_RANGE) = ret.result
        /\ fn = "filter_boxes" =>
              /\ \A b \in Range(boxes) : b \in Range(ret.result) <=> InWidenedRanges(b)
              /\ Range(ret.result) \subseteq Range(boxes)

\* detect returned at least one box for a pair of ranges
C20_Witness ==
    /\ pc = "done" /\ IsDetect /\ BothRanges /\ ret.status = "returned"
    /\ ret.result # << >>
    /\ filter_boxes(ret.result, W_RANGE, H_RANGE) = ret.result
    /\ filter_boxes(ret.result, << W_RANGE[2] + 1, W_RANGE[2] + 1 >>, H_RANGE) = << >>

\* the components merged into seed i's best valid box: the working set at
\* the last in-range step of its path
BestComponents(i) ==
    LET path == ret.grown[i].path
    IN  path[MaxOf(InRangeSteps(path))].used

\* the seeds whose best valid box, expanded, is the output box at position p
Producers(p) ==
    { i \in 1..Len(ret.grown) :
        /\ ret.grown[i].best_valid # NoBox
        /\ Expanded(ret.grown[i].best_valid) = ret.result[p] }

\* C21: any two boxes of detect's final output come from growth paths whose
\* component sets are disjoint (for some attribution of the two boxes to
\* two different seeds that recorded them).
C21_FinalPathsShareNoComponent ==
    (pc = "done" /\ IsDetect /\ BothRanges /\ ret.status = "returned") =>
        \A p \in 1..Len(ret.result) : \A q \in 1..Len(ret.result) :
            p < q =>
                \E i \in Producers(p) : \E j \in Producers(q) :
                    i # j /\ BestComponents(i) \cap BestComponents(j) = {}

\* ink fraction of row r (column c) of the crop of rect
RowInk(r) ==
    Rat(DarkInRow(image, 128, rect.x, rect.x + rect.w, rect.y + r), rect.w)
ColumnInk(c) ==
    Rat(DarkInColumn(image, 128, rect.y, rect.y + rect.h, rect.x + c), rect.h)

\* among positions lo..hi-1 there is a contiguous run of blank ones whose
\* length, relative to size, reaches (strict: exceeds) 0.12
HasBlankRun(blank, lo, hi, size, strict) ==
    \E a \in lo..(hi - 1) : \E len \in 1..(hi - a) :
        /\ \A r \in a..(a + len - 1) : blank[r]
        /\ IF strict THEN RatGt(Rat(len, size), Rat(12, 100))
                     ELSE RatGe(Rat(len, size), Rat(12, 100))

\* the margin the filter that ran trims at each end, in percent
MarginPercent == IF fn = "has_white_gap" THEN 0 ELSE 15

RowsShowGap(strict) ==
    LET blank == [r \in 0..(rect.h - 1) |->
                    IF strict THEN RatLt(RowInk(r), Rat(3, 100))
                              ELSE RatLe(RowInk(r), Rat(3, 100))]
    IN  HasBlankRun(blank, (MarginPercent * rect.h) \div 100,
                    ((100 - MarginPercent) * rect.h) \div 100, rect.h, strict)

ColumnsShowGap(strict) ==
    LET blank == [c \in 0..(rect.w - 1) |->
                    IF strict THEN RatLt(ColumnInk(c), Rat(3, 100))
                              ELSE RatLe(ColumnInk(c), Rat(3, 100))]
    IN  HasBlankRun(blank, (MarginPercent * rect.w) \div 100,
                    ((100 - MarginPercent) * rect.w) \div 100, rect.w, strict)

\* C22 as stated: the gap filter rejects a box iff the longest run of rows
\* with ink fraction below 0.03 exceeds 0.12 of the height, or the longest
\* such run of columns exceeds 0.12 of the width.
C22_RejectsIffGapOnEitherAxis ==
    (pc = "done" /\ IsGapFilter) =>
        (gap <=> (RowsShowGap(TRUE) \/ ColumnsShowGap(TRUE)))

\* C22, amended: a row or column is blank when its ink fraction is at most
\* 0.03, a run counts when it is at least 0.12 of the height or width;
\* has_white_gap (no margin) rejects on either axis,
\* has_horizontal_white_gap (margin 0.15) on rows only.
C22_RejectsIffGapAtThreshold ==
    (pc = "done" /\ IsGapFilter) =>
        (gap <=> \/ RowsShowGap(FALSE)
                 \/ (fn = "has_white_gap" /\ ColumnsShowGap(FALSE)))

\* has_white_gap rejected the 100 x 25 box whose only blank rows have an ink
\* fraction of exactly 0.03 and make up exactly 0.12 of the height
C22_Witness ==
    /\ pc = "done" /\ fn = "has_white_gap"
    /\ image = GapEdgeImage /\ rect = Box(0, 0, 100, 25)
    /\ gap
    /\ ~RowsShowGap(TRUE) /\ ~ColumnsShowGap(TRUE)

\* the angles that enter the median, one per surviving line, in line order
EnteringAngles ==
    LET S == Survivors(cv_image)
        order == SeqByKey(S, [k \in S |-> k])
    IN  [p \in 1..Len(order) |-> AxisAngle(cv_image.lines[order[p]])]

\* every angle that enters the median differs from its line's angle by 0 or
\* +-90 degrees, vertical lines enter as 0, lines beyond 135 degrees are
\* left out, and a returned estimate is at most 20 degrees in magnitude
C23_Common ==
    /\ CollectAngles(cv_image.lines) = EnteringAngles
    /\ \A k \in 1..Len(cv_image.lines) :
          LET line == cv_image.lines[k]
          IN  /\ line[1] = line[3] => (k \in Survivors(cv_image) /\ AxisAngle(line) = 0)
              /\ k \in Survivors(cv_image) =>
                    AxisAngle(line) - LineAngle(line) \in { -90000, 0, 90000 }
    /\ estimate_skew_angle(cv_image).defined =>
          Abs(estimate_skew_angle(cv_image).half) <= 40000

\* C23 as stated: every angle entering the median lies in the half-open
\* interval (-45, 45] degrees.
C23_AnglesInHalfOpenInterval ==
    (pc = "done" /\ fn = "auto_deskew" /\ cv_image.present) =>
        /\ C23_Common
        /\ \A p \in 1..Len(EnteringAngles) :
              -45000 < EnteringAngles[p] /\ EnteringAngles[p] <= 45000

\* C23, amended: every angle entering the median lies in the closed interval
\* [-45, 45] degrees (a line at exactly -45 or -135 degrees enters as -45).
C23_AnglesInClosedInterval ==
    (pc = "done" /\ fn = "auto_deskew" /\ cv_image.present) =>
        /\ C23_Common
        /\ \A p \in 1..Len(EnteringAngles) :
              -45000 <= EnteringAngles[p] /\ EnteringAngles[p] <= 45000

\* an estimate was returned for lines of which one entered as -45 degrees
\* and one was vertical
C23_Witness ==
    /\ pc = "done" /\ fn = "auto_deskew" /\ cv_image.present
    /\ estimate_skew_angle(cv_image).defined
    /\ \E p \in 1..Len(EnteringAngles) : EnteringAngles[p] = -45000
    /\ \E k \in 1..Len(cv_image.lines) : cv_image.lines[k][1] = cv_image.lines[k][3]

\* C24: every growth path ends within n iterations for n components: each
\* iteration but the last adds one component that was not in the working
\* set (so the set never holds a component twice), and each seed
\* contributes at most one candidate.
C24_GrowthTerminates ==
    (pc = "done" /\ IsDetect) =>
        LET n == Len(ret.components)
        IN  /\ \A i \in 1..Len(ret.grown) :
                  LET path == ret.grown[i].path
                  IN  /\ 1 <= Len(path) /\ Len(path) <= n
                      /\ path[1].used = {i}
                      /\ \A s \in 1..Len(path) :
                            /\ path[s].used \subseteq 1..n
                            /\ Cardinality(path[s].used) = s
                            /\ s > 1 => path[s - 1].used \subseteq path[s].used
            /\ Len(ret.candidates) <= n
            /\ ret.status = "returned" /\ n > 0 =>
                  Len(ret.candidates) =
                      Cardinality({ i \in 1..n : ret.grown[i].best_valid # NoBox })

\* a seed's path ran for as many iterations as there are components, three,
\* and the seed contributed a candidate
C24_Witness ==
    /\ pc = "done" /\ IsDetect /\ ret.status = "returned"
    /\ Len(ret.components) = 3
    /\ \E i \in 1..Len(ret.grown) :
          /\ Len(ret.grown[i].path) = 3
          /\ ret.grown[i].best_valid # NoBox

\* C25: the per-image box list is retained across file switches: whenever
\* a file is shown, the view holds the boxes last shown for that file (from
\* detect_current or manual selection, less the deleted ones).
C25_BoxesRetainedAcrossSwitches ==
    (pc = "ui" /\ ui.row # 0) => ui.box_items = ui.seen[ui.files[ui.row]]

\* the box counts as locked
IsLocked(box) == HasLocked(box) /\ box.locked

\* the fields of a box other than `selected`
SameButSelected(a, b) ==
    /\ DOMAIN a = DOMAIN b
    /\ \A f \in DOMAIN a \ { "selected" } : a[f] = b[f]

\* C26: apply_rules completes without error; every field of a locked box is
\* unchanged, and of an unlocked box only `selected` changes, becoming true
\* iff w[0] <= box.w <= w[1], h[0] <= box.h <= h[1] and
\* ratio[0] <= box.w / box.h <= ratio[1] (ratio 0 when h = 0).
C26_ApplyRulesKeepsLocked ==
    (pc = "done" /\ rl.status # "none") =>
        /\ rl.status = "returned"
        /\ Len(rl.after) = Len(rl.boxes)
        /\ \A k \in 1..Len(rl.boxes) :
              LET before == rl.boxes[k]
                  after == rl.after[k]
                  r == IF before.h = 0 THEN Zero ELSE Rat(before.w, before.h)
              IN  IF IsLocked(before) THEN after = before
                  ELSE /\ SameButSelected(before, after)
                       /\ after.selected <=>
                             /\ rl.w[1] <= before.w /\ before.w <= rl.w[2]
                             /\ rl.h[1] <= before.h /\ before.h <= rl.h[2]
                             /\ RatLe(rl.ratio[1], r) /\ RatLe(r, rl.ratio[2])

\* the table has a cell at (row, col)
HasCell(cells, row, col) ==
    row >= 0 /\ col >= 0 /\ row < Len(cells) /\ col < Len(cells[row + 1])
CellAt(cells, row, col) == cells[row + 1][col + 1]

\* every cell of `old` for which keep(row, col) holds is in `new`, unchanged
CellsKept(old, new, keep(_, _)) ==
    \A r \in 0..(Len(old) - 1) : \A c \in 0..(Len(old[r + 1]) - 1) :
        keep(r, c) => HasCell(new, r, c) /\ CellAt(new, r, c) = CellAt(old, r, c)

\* C27: after split_cell(row, col, cursor) of an existing cell, (row, col)
\* holds text[:cursor], (row + 1, col) holds text[cursor:], every text that
\* was at (r, col) with r > row is at (r + 1, col), the row count has grown
\* by one, and the cells of the other columns are unchanged.
C27_SplitCellShiftsColumnDown ==
    (pc = "table" /\ tb.op.name = "split_cell"
       /\ HasCell(tb.prev, tb.op.row, tb.op.col)) =>
        LET old == tb.prev
            new == tb.cells
            row == tb.op.row
            col == tb.op.col
            text == CellAt(old, row, col)
            Other(r, c) == c # col
        IN  /\ HasCell(new, row, col)
            /\ CellAt(new, row, col) = StrBefore(text, tb.op.cursor)
            /\ HasCell(new, row + 1, col)
            /\ CellAt(new, row + 1, col) = StrAfter(text, tb.op.cursor)
            /\ \A r \in (row + 1)..(Len(old) - 1) :
                  HasCell(old, r, col) =>
                      /\ HasCell(new, r + 1, col)
                      /\ CellAt(new, r + 1, col) = CellAt(old, r, col)
            /\ row_count(new) = row_count(old) + 1
            /\ CellsKept(old, new, Other)

\* C28: set_text(row, col, text) and set_image(row, path) on a table with
\* rows, more than row + 1 of them or more than col + 1 columns, change only the
\* addressed cell: every other existing cell keeps its value, and the row
\* count and the column count do not decrease.
C28_SetChangesOnlyAddressedCell ==
    (pc = "table" /\ tb.op.name \in { "set_text", "set_image" }
       /\ tb.prev # NewTable
       /\ (row_count(tb.prev) > tb.op.row + 1
             \/ column_count(tb.prev) > tb.op.col + 1)) =>
        LET NotAddressed(r, c) == r # tb.op.row \/ c # tb.op.col
        IN  /\ CellsKept(tb.prev, tb.cells, NotAddressed)
            /\ row_count(tb.cells) >= row_count(tb.prev)
            /\ column_count(tb.cells) >= column_count(tb.prev)

\* the texts of one column, top to bottom
ColumnOf(table, col) == [r \in 1..Len(table) |-> table[r][col + 1]]

\* the characters of a text other than the separator
RECURSIVE Unseparated(_)
Unseparated(text) ==
    IF text = << >> THEN << >>
    ELSE (IF Head(text) = LINE_SEPARATOR THEN << >> ELSE << Head(text) >>)
             \o Unseparated(Tail(text))

\* all the text of a column, row after row, the separators left out
RECURSIVE ColumnText(_)
ColumnText(column) ==
    IF column = << >> THEN << >>
    ELSE Unseparated(Head(column)) \o ColumnText(Tail(column))

\* a merge at the (row, col) of the split before it, the split made below
\* the last row and inside the text, no cell above the last holding "*"
SplitThenMerge ==
    /\ pc = "editor"
    /\ ed.last.name = "merge" /\ ed.prior.name = "split"
    /\ ed.last.row = ed.prior.row /\ ed.last.col = ed.prior.col
    /\ ed.prior.row < table_len(ed.prior.before) - 1
    /\ ed.prior.cursor < Len(get_cell(ed.prior.before, ed.prior.row, ed.prior.col))
    /\ \A r \in 0..(table_len(ed.prior.before) - 2) :
          ~HasSeparator(get_cell(ed.prior.before, r, ed.prior.col))

RoundTripHolds ==
    /\ ColumnOf(ed.table, ed.last.col) = ColumnOf(ed.prior.before, ed.last.col)
    /\ table_len(ed.last.before) = table_len(ed.prior.before)
    /\ table_len(ed.table) = table_len(ed.prior.before)
    /\ ColumnText(ColumnOf(ed.last.before, ed.last.col))
          = ColumnText(ColumnOf(ed.prior.before, ed.last.col))
    /\ ColumnText(ColumnOf(ed.table, ed.last.col))
          = ColumnText(ColumnOf(ed.prior.before, ed.last.col))

KeyRank(bs, i) ==
    1 + Cardinality({ j \in 1..Len(bs) :
                        \/ bs[j].x * bs[j].y < bs[i].x * bs[i].y
                        \/ bs[j].x * bs[j].y = bs[i].x * bs[i].y /\ j < i })
InKeyOrder(bs) ==
    [r \in 1..Len(bs) |-> bs[CHOOSE i \in 1..Len(bs) : KeyRank(bs, i) = r]]

\* the elements of seq at the positions of K, in their order
RECURSIVE KeepAt(_, _, _)
KeepAt(seq, K, i) ==
    IF i > Len(seq) THEN << >>
    ELSE (IF i \in K THEN << seq[i] >> ELSE << >>) \o KeepAt(seq, K, i + 1)

\* C30: the output of coverage_deduplication is a sub-list of the input
\* sorted by the key x * y (ties in input order), the first box of that
\* order is kept, a box is dropped only if its coverage with some kept box
\* exceeds 0.95, and coverage_deduplication of the output is the output.
C30_DedupSelectiveAndIdempotent ==
    (pc \in { "done", "again" } /\ op = "coverage_deduplication") =>
        LET ordered == InKeyOrder(boxes)
            n == Len(ordered)
        IN  /\ \E K \in SUBSET (1..n) :
                  /\ out = KeepAt(ordered, K, 1)
                  /\ n > 0 => 1 \in K
                  /\ \A i \in (1..n) \ K : \E k \in K :
                        RatGt(PixelCoverage(ordered[i], ordered[k]), Rat(19, 20))
            /\ coverage_deduplication(out) = out

\* three boxes that the sort reorders, one of them dropped
C30_Witness ==
    /\ pc = "done" /\ op = "coverage_deduplication"
    /\ Len(boxes) = 3 /\ Len(out) = 2
    /\ InKeyOrder(boxes) # boxes
    /\ out[1] # boxes[1]
    /\ \E i, j \in 1..3 : i < j /\ boxes[i].x * boxes[i].y > boxes[j].x * boxes[j].y

====
